---- MODULE Spec2Model ----
(***************************************************************************)
(* A model of the Stremio catalogue add-on: the TTL cache with its two     *)
(* backends (src/utils/cache.js), the title-match confidence score         *)
(* (src/services/titleMatcher.js), the Netflix Top-10 reconciler           *)
(* (src/services/netflixService.js), the catalog item ids, the poster      *)
(* route, the session and token stores with the OAuth routes, the Trakt    *)
(* recommendation catalogs, the stream handler and /admin/clear-cache,     *)
(* the catalog handler of addon.js, searchTMDB of titleMatcher.js, how     *)
(* long session and token records are kept, overlapping getTrendingMovies  *)
(* and getAccessToken calls, and the Netflix import route with its SSE     *)
(* progress connections.                                                   *)
(***************************************************************************)
EXTENDS Integers, Sequences, FiniteSets, TLC

VARIABLES
    now,        \* Date.now(), in milliseconds
    redisUrl,   \* process.env.REDIS_URL || process.env.KV_URL is set
    store,      \* Cache.store: the in-memory Map, key -> {value, expiry}
    redis,      \* the external Redis store, key -> JSON text with its expiry
    setLog,     \* per key: the most recent cache.set and whether a clear followed
    lastGet,    \* the cache.get made since the last set or clear, if any
    searchTitle, \* calculateMatchConfidence: the title searched for
    foundTitle,  \* result.title || result.name of the first search result
    searchYear,  \* the optional year hint
    foundDate,   \* result.release_date || result.first_air_date
    confidence,  \* the value calculateMatchConfidence returned
    apiKey,      \* config.tmdb.apiKey is set
    page,        \* the table rows of the Netflix Top-10 page
    world,       \* what TMDB answers to each search term and detail request
    pc,          \* where the current getNetflixTop10 request stands
    rtype,       \* the content type of the current request
    top10Items,  \* scrapeNetflixTop10: the rank entries extracted from the page
    tasks,       \* one enrichment task per limited item (the async map callbacks)
    reply,       \* what the last finished request returned, and how
    requests,    \* number of requests finished so far
    bTitles,     \* batchSearch: the {title, year} objects to look up
    bIndex,      \* batchSearch: the loop index i, counted from 1
    bpc,         \* batchSearch: what the loop is waiting for
    bCand,       \* searchTMDB: data.results[0] while its IMDB id is looked up
    bResults,    \* batchSearch: results
    bInFlight,   \* the TMDB requests of the run that are awaiting a response
    bTimer,      \* the time at which the pending setTimeout is due
    bSearchAt,   \* the times at which the run's search requests were issued
    idKind,      \* which mapping the run exercises
    idType,      \* the content type handed to the mapper
    idTrending,  \* data.results of the trending endpoint, or the failed fetch
    idSecond,    \* data.results of now_playing / popular, or the failed fetch
    idDetail,    \* what the TMDB detail request answers for each TMDB id
    idItem,      \* the single provider item that is mapped
    idWorld,     \* the TMDB answers to the searches of a Netflix title
    idOut,       \* the metas the mapping returned
    posterCache, \* posterService.js: posterCache, cache key -> timestamp
    posterRes,   \* what the last poster request was and how it was answered
    posterCount, \* number of poster requests answered so far
    tokenStore,   \* tokenManager.js: tokenStore, the record of the session
    tokenRedis,   \* Redis: the value of tokens:<sessionId>
    sessionStore, \* sessionManager.js: sessionStore holds the session
    sessionRedis, \* Redis: session:<sessionId> is set
    created,      \* an OAuth callback has handed out the session id
    issued,       \* number of token answers Trakt has given
    refreshFailed, \* the latest refresh attempt of the session failed
    loggedOut,    \* a logout request naming the session has been answered
    refreshes,    \* number of refresh requests sent to Trakt
    lastAuth,     \* the last token or session operation and what it returned
    catRes,       \* the last catalog operation and what it returned
    catCount,     \* number of catalog, stream and admin requests so far
    oldEntries,   \* cache entries that were written before the last clear-cache answer
    clearedOnce,  \* clear-cache has answered success
    streamRes,    \* what the last stream request was answered
    scrobble,     \* the markAsWatched call of the last stream request
    catalogArgs,  \* the args of one catalog request and what its service call does
    catalogReply, \* what the catalog handler returned, or that it raised
    searchArgs,   \* titleMatcher searchTMDB: its arguments and what TMDB answers
    searchResult, \* titleMatcher searchTMDB: what the call returned
    sessionExpiry, \* Redis: the day on which session:<sessionId> expires
    tokenExpiry,   \* Redis: the day on which tokens:<sessionId> expires
    sessionWritten, \* the day of the last createSession, -1 before the first
    tokenWritten,  \* the day of the last saveTokens, -1 before the first
    retained,      \* what the last getSession / isValidSession / loadTokens returned
    writes,        \* number of createSession and saveTokens calls so far
    day,           \* the whole days that have passed since the process started
    racePc,        \* getTrendingMovies: where each of the two requests stands
    raceMissed,    \* per request: its cache.get returned null
    raceMetas,     \* per request: the metas it built from its own fetch
    raceOut,       \* per request: the list it returned
    lastWrite,     \* the latest cache.set of the key: by whom and into which store
    entryOwner,    \* per store and key: the session and page of the request that wrote the entry
    lastRec,       \* the last recommendations call: its arguments and what it read
    tokPc,         \* getAccessToken: where each of the two calls stands
    tokSent,       \* per call: the refresh_token it sent to Trakt, if any
    tokNew,        \* per call: the record built from Trakt's answer, before saveTokens
    tokOut,        \* per call: what getAccessToken returned
    activeConnections, \* netflixImport route: the session ids with a registered SSE response
    importPc,      \* POST /api/import-netflix: where the request in progress stands
    importSession, \* req.body.sessionId of the request in progress
    importRes,     \* the last import response and what it left behind
    importCount    \* number of import requests answered so far

cacheVars == <<now, redisUrl, store, redis, setLog, lastGet>>
matchVars == <<searchTitle, foundTitle, searchYear, foundDate, confidence>>
netflixVars == <<apiKey, page, world, pc, rtype, top10Items, tasks, reply, requests>>
batchVars == <<bTitles, bIndex, bpc, bCand, bResults, bInFlight, bTimer, bSearchAt>>
idVars == <<idKind, idType, idTrending, idSecond, idDetail, idItem, idWorld, idOut>>
posterVars == <<posterCache, posterRes, posterCount>>
authVars == <<tokenStore, tokenRedis, sessionStore, sessionRedis, created, issued,
              refreshFailed, loggedOut, refreshes, lastAuth>>
catalogVars == <<catRes, catCount, oldEntries, clearedOnce, streamRes, scrobble>>
traktVars == <<authVars, catalogVars>>
handlerVars == <<catalogArgs, catalogReply>>
matcherVars == <<searchArgs, searchResult>>
retentionVars == <<sessionExpiry, tokenExpiry, sessionWritten, tokenWritten, retained,
                   writes, day>>
raceVars == <<racePc, raceMissed, raceMetas, raceOut, lastWrite>>
ownerVars == <<entryOwner, lastRec>>
refreshVars == <<tokPc, tokSent, tokNew, tokOut>>
importVars == <<activeConnections, importPc, importSession, importRes, importCount>>
requestVars == <<handlerVars, matcherVars, retentionVars, raceVars, ownerVars, refreshVars,
                 importVars>>
serviceVars == <<idVars, posterVars, traktVars, requestVars>>
vars == <<cacheVars, matchVars, netflixVars, batchVars, serviceVars>>

----------------------------------------------------------------------------
(* Bounds of the cache model *)

TickMs == 500
MaxTime == 2000

(* Values and conversions *)

Undefined == <<"undefined">>
NoValue == <<>>

\* the values handed to cache.set by the callers of the cache model
CacheValues ==
    { << [name |-> <<"a">>, rating |-> <<"7.1">>] >>,
      << [name |-> <<"b">>, rating |-> Undefined] >> }

CacheKeys == {"k"}
CacheTTLs == {100, 1500}

\* JSON.stringify of one object: a property whose value is undefined is left out
StringifyObject(obj) ==
    [f \in {g \in DOMAIN obj : obj[g] # Undefined} |-> obj[f]]

\* JSON.stringify(value), for the arrays of objects the services cache
JsonStringify(v) ==
    [json |-> [i \in DOMAIN v |-> StringifyObject(v[i])]]

\* JSON.parse(text)
JsonParse(t) == t.json

Absent == [present |-> FALSE, value |-> NoValue, expiry |-> 0]
Miss == [hit |-> FALSE, value |-> NoValue]
Hit(v) == [hit |-> TRUE, value |-> v]

NoGet == [done |-> FALSE, key |-> "k", at |-> 0, result |-> Miss, mode |-> "null"]

NeverSet == [isSet |-> FALSE, value |-> NoValue, ttl |-> 0, at |-> 0, cleared |-> FALSE]

\* Math.ceil(ttl / 1000)
CeilSeconds(ttl) == (ttl + 999) \div 1000

\* outcomes of the Redis leg of one cache call: getRedisClient() gives null,
\* the command succeeds, or the command throws
RedisModes == {"null", "ok", "throw"}
ModesFor(url) == IF url THEN RedisModes ELSE {"null"}

\* Redis GET: a key whose EX has run out is gone
RedisLive(r, k, t) == r[k].present /\ t < r[k].expiry

\* Cache.get(key): the value returned
GetResult(st, r, k, mode, t) ==
    IF mode = "ok"
    THEN IF RedisLive(r, k, t) THEN Hit(JsonParse(r[k].value)) ELSE Miss
    ELSE IF ~st[k].present THEN Miss
         ELSE IF t > st[k].expiry THEN Miss
         ELSE Hit(st[k].value)

\* Cache.get(key): the in-memory Map afterwards (lazy eviction)
GetStore(st, k, mode, t) ==
    IF mode # "ok" /\ st[k].present /\ t > st[k].expiry
    THEN [st EXCEPT ![k] = Absent]
    ELSE st

\* SetStore that adds the new items to the entry already there
SetStore_Append(st, k, v, ttl, mode, t) ==
    IF mode = "ok" THEN st
    ELSE [st EXCEPT ![k] = [present |-> TRUE, value |-> st[k].value \o v,
                            expiry |-> t + ttl]]
\* Cache.set(key, value, ttl): the in-memory Map afterwards
SetStore(st, k, v, ttl, mode, t) ==
    IF mode = "ok" THEN st
    ELSE [st EXCEPT ![k] = [present |-> TRUE, value |-> v, expiry |-> t + ttl]]

\* Cache.set(key, value, ttl): the Redis store afterwards
SetRedis(r, k, v, ttl, mode, t) ==
    IF mode = "ok"
    THEN [r EXCEPT ![k] = [present |-> TRUE, value |-> JsonStringify(v),
                           expiry |-> t + CeilSeconds(ttl) * 1000]]
    ELSE r

\* Cache.clear(key): the in-memory Map afterwards
ClearStore(st, k, mode) ==
    IF mode = "ok" THEN st ELSE [st EXCEPT ![k] = Absent]

\* Cache.clear(key): the Redis store afterwards
ClearRedis(r, k, mode) ==
    IF mode = "ok" THEN [r EXCEPT ![k] = Absent] ELSE r

----------------------------------------------------------------------------
(* Strings are sequences of one-character strings *)

MaxSearchLen == 2
MaxFoundLen == 3

Min(a, b) == IF a < b THEN a ELSE b
Abs(a) == IF a < 0 THEN -a ELSE a

\* an optional value: null or undefined, or a value
None == [some |-> FALSE, val |-> <<>>]
Some(x) == [some |-> TRUE, val |-> x]

StringsUpTo(alphabet, n) == UNION {[1..m -> alphabet] : m \in 0..n}

\* String.prototype.toLowerCase, one character
LowerChar(c) ==
    CASE c = "A" -> "a"
      [] c = "B" -> "b"
      [] OTHER -> c

\* String.prototype.toLowerCase
ToLowerCase(str) == [i \in DOMAIN str |-> LowerChar(str[i])]

RECURSIVE TrimStart(_)
TrimStart(str) ==
    IF str # <<>> /\ Head(str) = " " THEN TrimStart(Tail(str)) ELSE str

RECURSIVE TrimEnd(_)
TrimEnd(str) ==
    IF str # <<>> /\ str[Len(str)] = " "
    THEN TrimEnd(SubSeq(str, 1, Len(str) - 1))
    ELSE str

\* String.prototype.trim
Trim(str) == TrimEnd(TrimStart(str))

\* String.prototype.includes: sub occurs in str as a contiguous run
Includes(str, sub) ==
    \E i \in 1..(Len(str) - Len(sub) + 1) :
        SubSeq(str, i, i + Len(sub) - 1) = sub

DigitChars == <<"0", "1", "2", "3", "4", "5", "6", "7", "8", "9">>
IsDigit(c) == \E d \in 1..10 : DigitChars[d] = c
DigitValue(c) == (CHOOSE d \in 1..10 : DigitChars[d] = c) - 1

\* foundDate.split('-')[0]
RECURSIVE BeforeDash(_)
BeforeDash(str) ==
    IF str = <<>> \/ Head(str) = "-" THEN <<>>
    ELSE <<Head(str)>> \o BeforeDash(Tail(str))

RECURSIVE LeadingDigits(_)
LeadingDigits(str) ==
    IF str = <<>> \/ ~IsDigit(Head(str)) THEN <<>>
    ELSE <<Head(str)>> \o LeadingDigits(Tail(str))

RECURSIVE DigitsValue(_)
DigitsValue(ds) ==
    IF ds = <<>> THEN 0
    ELSE 10 * DigitsValue(SubSeq(ds, 1, Len(ds) - 1)) + DigitValue(ds[Len(ds)])

\* parseInt(text): the leading digits as a number, NaN when there are none
ParseInt(str) ==
    LET ds == LeadingDigits(TrimStart(str))
    IN  IF ds = <<>> THEN [nan |-> TRUE, n |-> 0]
        ELSE [nan |-> FALSE, n |-> DigitsValue(ds)]

----------------------------------------------------------------------------
(* titleMatcher.js: the confidence score *)

\* TitleScore with Math.round in place of Math.floor
TitleScore_Round(searchLower, foundLower) ==
    IF searchLower = foundLower THEN 70
    ELSE IF Includes(foundLower, searchLower) \/ Includes(searchLower, foundLower)
         THEN 50
    ELSE LET longer  == IF Len(searchLower) > Len(foundLower)
                        THEN searchLower ELSE foundLower
             shorter == IF Len(searchLower) > Len(foundLower)
                        THEN foundLower ELSE searchLower
         IN  (Len(shorter) * 80 + Len(longer)) \div (2 * Len(longer))

\* Title similarity (max 70 points)
TitleScore(searchLower, foundLower) ==
    IF searchLower = foundLower THEN 70
    ELSE IF Includes(foundLower, searchLower) \/ Includes(searchLower, foundLower)
         THEN 50
    ELSE LET longer  == IF Len(searchLower) > Len(foundLower)
                        THEN searchLower ELSE foundLower
             shorter == IF Len(searchLower) > Len(foundLower)
                        THEN foundLower ELSE searchLower
         IN  (Len(shorter) * 40) \div Len(longer)

\* YearScore that takes points off when the years are far apart
YearScore_Penalty(sYear, fDate) ==
    IF sYear.some /\ sYear.val # 0 /\ fDate.some /\ fDate.val # <<>>
    THEN LET foundYear == ParseInt(BeforeDash(fDate.val))
         IN  IF foundYear.nan THEN 0
             ELSE IF sYear.val = foundYear.n THEN 30
             ELSE IF Abs(sYear.val - foundYear.n) <= 1 THEN 20
             ELSE IF Abs(sYear.val - foundYear.n) <= 2 THEN 10
             ELSE -20
    ELSE 15

\* YearScore whose one-year window is tested with < in place of <=
YearScore_StrictWindow(sYear, fDate) ==
    IF sYear.some /\ sYear.val # 0 /\ fDate.some /\ fDate.val # <<>>
    THEN LET foundYear == ParseInt(BeforeDash(fDate.val))
         IN  IF foundYear.nan THEN 0
             ELSE IF sYear.val = foundYear.n THEN 30
             ELSE IF Abs(sYear.val - foundYear.n) < 1 THEN 20
             ELSE IF Abs(sYear.val - foundYear.n) <= 2 THEN 10
             ELSE 0
    ELSE 15

\* Year matching (max 30 points); sYear and fDate are optional values
YearScore(sYear, fDate) ==
    IF sYear.some /\ sYear.val # 0 /\ fDate.some /\ fDate.val # <<>>
    THEN LET foundYear == ParseInt(BeforeDash(fDate.val))
         IN  IF foundYear.nan THEN 0
             ELSE IF sYear.val = foundYear.n THEN 30
             ELSE IF Abs(sYear.val - foundYear.n) <= 1 THEN 20
             ELSE IF Abs(sYear.val - foundYear.n) <= 2 THEN 10
             ELSE 0
    ELSE 15

\* calculateMatchConfidence(searchTitle, foundTitle, searchYear, foundDate)
calculateMatchConfidence(sTitle, fTitle, sYear, fDate) ==
    LET searchLower == Trim(ToLowerCase(sTitle))
        foundLower  == Trim(ToLowerCase(IF fTitle.some THEN fTitle.val ELSE <<>>))
    IN  Min(TitleScore(searchLower, foundLower) + YearScore(sYear, fDate), 100)

TitleAlphabet == {"a", "A", "b", " "}

SearchTitles == StringsUpTo(TitleAlphabet, MaxSearchLen)
FoundTitles == {None} \cup {Some(t) : t \in StringsUpTo(TitleAlphabet, MaxFoundLen)}

\* a date as TMDB writes it, for a four-digit year
DateText(y) ==
    << DigitChars[((y \div 1000) % 10) + 1], DigitChars[((y \div 100) % 10) + 1],
       DigitChars[((y \div 10) % 10) + 1], DigitChars[(y % 10) + 1],
       "-", "0", "5", "-", "1", "7" >>

SearchYears == {None, Some(0), Some(2021)}
FoundDates ==
    {None, Some(<<>>), Some(<<"T", "B", "A">>)}
        \cup {Some(DateText(y)) : y \in 2018..2023}

NotComputed == [done |-> FALSE, score |-> 0]

IdleMatch ==
    /\ searchTitle = <<>>
    /\ foundTitle = None
    /\ searchYear = None
    /\ foundDate = None
    /\ confidence = NotComputed

InitMatchVars ==
    /\ searchTitle \in SearchTitles
    /\ foundTitle \in FoundTitles
    /\ searchYear \in SearchYears
    /\ foundDate \in FoundDates
    /\ confidence = NotComputed

Calculate ==
    /\ ~confidence.done
    /\ confidence' = [done |-> TRUE,
                      score |-> calculateMatchConfidence(searchTitle, foundTitle,
                                                         searchYear, foundDate)]
    /\ UNCHANGED <<searchTitle, foundTitle, searchYear, foundDate>>

----------------------------------------------------------------------------
(* netflixService.js: page extraction *)

MaxRows == 2
MaxLongRows == 11

Hanna == <<"H", "a", "n", "n", "a">>
\* "Förlåt": ouml and aring stand for the characters o-umlaut and a-ring
Forlat == <<"F", "ouml", "r", "l", "aring", "t">>

\* a table row: whether it has <th> cells, the alt text of its first image,
\* and the text of its <td> cells
HeaderRow == [th |-> TRUE, alt |-> <<>>, cells |-> << <<"#">>, <<"T", "i", "t", "l", "e">> >>]
ImageRow == [th |-> FALSE, alt |-> Hanna, cells |-> << <<>>, Hanna, <<"3">> >>]
TextRow == [th |-> FALSE, alt |-> <<>>,
            cells |-> << <<"0", "2">>, <<"0", "2", ".", " ">> \o Forlat, <<"1", "2">> >>]
BlankRow == [th |-> FALSE, alt |-> <<>>, cells |-> << <<"3">>, <<"1", "2">>, <<"5">> >>]

\* a row whose first cell holds a number above ten
EleventhRow == [th |-> FALSE, alt |-> <<>>, cells |-> << <<"1", "1">>, Hanna, <<"1">> >>]

RowKinds == {HeaderRow, ImageRow, TextRow, BlankRow, EleventhRow}

\* the decimal digits of a number below 100
NumberText(n) ==
    IF n < 10 THEN <<DigitChars[n + 1]>>
    ELSE <<DigitChars[(n \div 10) + 1], DigitChars[(n % 10) + 1]>>

\* row i of a long ranking table: rank cell, image with alt text, weeks cell
LongRow(i) ==
    [th |-> FALSE, alt |-> <<"T">> \o NumberText(i),
     cells |-> << NumberText(i), <<>>, <<"1">> >>]

ShortPages == UNION {[1..n -> RowKinds] : n \in 0..MaxRows}
LongPages == {[i \in 1..n |-> LongRow(i)] : n \in 0..MaxLongRows}

\* /^\d+$/
IsAllDigits(str) == str # <<>> /\ \A i \in DOMAIN str : IsDigit(str[i])

\* the first cell text that is longer than 3 characters and not a number
RECURSIVE FirstTitleCell(_)
FirstTitleCell(cells) ==
    IF cells = <<>> THEN <<>>
    ELSE LET text == Trim(Head(cells))
         IN  IF Len(text) > 3 /\ ~IsAllDigits(text) THEN text
             ELSE FirstTitleCell(Tail(cells))

\* title.replace(/^\d{1,2}\.?\s*/, '').trim()
StripOrdinal(title) ==
    LET nd    == IF title # <<>> /\ IsDigit(title[1])
                 THEN (IF Len(title) >= 2 /\ IsDigit(title[2]) THEN 2 ELSE 1)
                 ELSE 0
        rest  == SubSeq(title, nd + 1, Len(title))
        rest2 == IF rest # <<>> /\ Head(rest) = "." THEN Tail(rest) ELSE rest
    IN  IF nd = 0 THEN Trim(title) ELSE Trim(TrimStart(rest2))

\* the title a row yields: image alt text first, then a cell text
RowTitle(row) ==
    StripOrdinal(IF row.alt # <<>> THEN row.alt ELSE FirstTitleCell(row.cells))

\* parseInt(rankText) || (top10Items.length + 1)
RowRank(row, count) ==
    LET rankText == IF row.cells = <<>> THEN <<>> ELSE Trim(row.cells[1])
        parsed   == ParseInt(rankText)
    IN  IF parsed.nan \/ parsed.n = 0 THEN count + 1 ELSE parsed.n

\* weeksText.match(/^\d+$/) ? weeksText : 'N/A'
RowWeeks(row) ==
    LET weeksText == IF row.cells = <<>> THEN <<>>
                     ELSE Trim(row.cells[Len(row.cells)])
    IN  IF IsAllDigits(weeksText) THEN weeksText ELSE <<"N", "/", "A">>

\* the .each() loop over the table rows: rows with <th> and rows without a
\* usable title are skipped
RECURSIVE ExtractRows(_, _)
ExtractRows(rows, acc) ==
    IF rows = <<>> THEN acc
    ELSE LET row   == Head(rows)
             title == RowTitle(row)
         IN  IF row.th THEN ExtractRows(Tail(rows), acc)
             ELSE IF title # <<>> /\ Len(title) > 1
                  THEN ExtractRows(Tail(rows),
                                   Append(acc, [rank |-> RowRank(row, Len(acc)),
                                                title |-> title,
                                                weeks |-> RowWeeks(row)]))
                  ELSE ExtractRows(Tail(rows), acc)

TopLimit == 10

\* LimitItems that keeps one item too few
LimitItems_Nine(items) == SubSeq(items, 1, Min(Len(items), TopLimit - 1))

\* top10Items.slice(0, 10)
LimitItems(items) == SubSeq(items, 1, Min(Len(items), TopLimit))

----------------------------------------------------------------------------
(* netflixService.js: spelling variants and the TMDB lookup *)

\* transliterate(): the replacement for one character
TransliterateChar(c) ==
    CASE c = "aring" -> <<"a", "a">>
      [] c = "auml" -> <<"a", "e">>
      [] c = "ouml" -> <<"o", "e">>
      [] c = "uuml" -> <<"u", "e">>
      [] c = "eacute" -> <<"e">>
      [] c = "szlig" -> <<"s", "s">>
      [] OTHER -> <<c>>

RECURSIVE transliterate(_)
transliterate(text) ==
    IF text = <<>> THEN <<>>
    ELSE TransliterateChar(Head(text)) \o transliterate(Tail(text))

\* normalize('NFD') followed by removal of the combining marks, one character
StripMarkChar(c) ==
    CASE c = "aring" -> "a"
      [] c = "auml" -> "a"
      [] c = "ouml" -> "o"
      [] c = "uuml" -> "u"
      [] c = "eacute" -> "e"
      [] OTHER -> c

StripMarks(text) == [i \in DOMAIN text |-> StripMarkChar(text[i])]

\* title.replace(/\s+/g, ' ').trim()
RECURSIVE CollapseSpaces(_)
CollapseSpaces(text) ==
    IF Len(text) < 2 THEN text
    ELSE IF text[1] = " " /\ text[2] = " " THEN CollapseSpaces(Tail(text))
    ELSE <<Head(text)>> \o CollapseSpaces(Tail(text))

CleanTitle(title) == Trim(CollapseSpaces(title))

\* [...new Set(list)]: later duplicates removed, order kept
RECURSIVE Unique(_, _)
Unique(list, acc) ==
    IF list = <<>> THEN acc
    ELSE IF \E i \in DOMAIN acc : acc[i] = Head(list)
         THEN Unique(Tail(list), acc)
         ELSE Unique(Tail(list), Append(acc, Head(list)))

\* uniqueVariations
Variations(title) ==
    LET cleanTitle == CleanTitle(title)
    IN  Unique(<<cleanTitle, transliterate(cleanTitle), StripMarks(cleanTitle)>>, <<>>)

SearchAnswers == {"notok", "throw", "empty", "found"}
DetailAnswers == {"notok", "throw", "imdb", "noimdb"}

SearchTerms == {Variations(Hanna)[i] : i \in DOMAIN Variations(Hanna)}
                   \cup {Variations(Forlat)[i] : i \in DOMAIN Variations(Forlat)}

\* one state of the TMDB service: the answer to the search for Hanna, to each
\* of the three spellings of Forlat, and to the detail request
TmdbWorld(h, f1, f2, f3, d) ==
    [search |-> [t \in SearchTerms |->
                    IF t = Hanna THEN h
                    ELSE IF t = Forlat THEN f1
                    ELSE IF t = transliterate(Forlat) THEN f2
                    ELSE f3],
     detail |-> d]

Worlds ==
    { TmdbWorld("found", "found", "found", "found", "imdb"),
      TmdbWorld("found", "empty", "found", "found", "imdb"),
      TmdbWorld("found", "notok", "throw", "found", "noimdb"),
      TmdbWorld("empty", "found", "found", "found", "notok"),
      TmdbWorld("found", "found", "empty", "found", "throw"),
      TmdbWorld("empty", "empty", "empty", "empty", "imdb") }

\* searchData.results[0] for a search term that is found
FirstResult(term) ==
    [id |-> <<"tmdb", 600 + Len(term)>>, name |-> term,
     imdb_id |-> Undefined, backdrop_path |-> Undefined]

\* the detail record, with external_ids.imdb_id copied to imdb_id when present
DetailData(term, answer) ==
    [id |-> <<"tmdb", 600 + Len(term)>>, name |-> term,
     imdb_id |-> IF answer = "imdb" THEN <<"imdb", 600 + Len(term)>> ELSE Undefined,
     backdrop_path |-> <<"/", "b">>]

NoData == [id |-> <<"none", 0>>, name |-> <<>>, imdb_id |-> Undefined,
           backdrop_path |-> Undefined]

\* the states of one async map callback: a search request in flight for
\* variation vi, the detail request in flight, or finished with tmdbData
Searching(vi) == [at |-> "search", vi |-> vi, found |-> FALSE, data |-> NoData]
Detailing(vi) == [at |-> "detail", vi |-> vi, found |-> FALSE, data |-> NoData]
Finished(found, data) == [at |-> "done", vi |-> 0, found |-> found, data |-> data]

\* searchTMDB() up to its first await: null at once without an API key
StartTask(item, key) ==
    IF key THEN Searching(1) ELSE Finished(FALSE, NoData)

\* searchTMDB(): the loop moves on to the next variation, or returns null
NextVariation(item, task) ==
    IF task.vi < Len(Variations(item.title))
    THEN Searching(task.vi + 1)
    ELSE Finished(FALSE, NoData)

\* searchTMDB(): the search response for the variation in flight arrives
AfterSearch(item, task, w) ==
    IF w.search[Variations(item.title)[task.vi]] = "found"
    THEN Detailing(task.vi)
    ELSE NextVariation(item, task)

\* searchTMDB(): the detail response arrives
AfterDetail(item, task, w) ==
    LET term == Variations(item.title)[task.vi]
    IN  CASE w.detail = "notok" -> Finished(TRUE, FirstResult(term))
          [] w.detail = "throw" -> NextVariation(item, task)
          [] OTHER -> Finished(TRUE, DetailData(term, w.detail))

\* the meta object the map callback returns for one item
ItemMeta(item, task, type) ==
    IF task.found
    THEN LET itemId == IF task.data.imdb_id # Undefined
                       THEN task.data.imdb_id ELSE task.data.id
         IN  [id |-> itemId,
              type |-> <<type>>,
              name |-> task.data.name,
              poster |-> <<"poster", type, item.rank, itemId>>,
              background |-> IF task.data.backdrop_path # Undefined
                             THEN <<"original">> \o task.data.backdrop_path
                             ELSE Undefined]
    ELSE [id |-> <<"netflix:se", item.rank, item.title>>,
          type |-> <<type>>,
          name |-> item.title]

\* the sample titles of getFallbackData
movieTitles ==
    << <<"Frankenstein">>, <<"A Merry Little Ex-Mas">>, <<"In Your Dreams">>,
       <<"KPop Demon Hunters">>, <<"Hanna">>, <<"Being Eddie">>,
       <<"Lilla spoket Laban spokar igen">>, <<"A HOUSE OF DYNAMITE">>,
       <<"Twisters">> >>

showTitles ==
    << <<"The Beast in Me">>, <<"Squid Game">>, <<"Outer Banks">>,
       <<"The Diplomat">>, <<"The Crown">>, <<"Wednesday">> >>

\* getFallbackData(type)
getFallbackData(type) ==
    LET titles == LimitItems(IF type = "movie" THEN movieTitles ELSE showTitles)
    IN  [i \in DOMAIN titles |->
            [id |-> <<"netflix:se:fallback", i, titles[i]>>,
             type |-> <<type>>,
             name |-> titles[i],
             poster |-> <<"placeholder", i>>]]

netflixTTL == 24 * 60 * 60 * 1000

\* cacheKey of getNetflixTop10Movies and getNetflixTop10Series
NetflixKey(type) ==
    IF type = "movie" THEN "netflix:sweden:movies:top10"
    ELSE "netflix:sweden:series:top10"

ContentTypes == {"movie", "series"}
NetflixKeys == {NetflixKey(t) : t \in ContentTypes}

NoReply == [done |-> FALSE, type |-> "movie", metas |-> <<>>, via |-> "none",
            fetch |-> "none", parsed |-> <<>>]

IdleNetflix ==
    /\ apiKey = FALSE
    /\ page = <<>>
    /\ world = TmdbWorld("empty", "empty", "empty", "empty", "notok")
    /\ pc = "off"
    /\ rtype = "movie"
    /\ top10Items = <<>>
    /\ tasks = <<>>
    /\ reply = NoReply
    /\ requests = 0

----------------------------------------------------------------------------
(* titleMatcher.js: searchTMDB and batchSearch *)

MaxBatch == 2
BatchTickMs == 125
MaxBatchTime == 750

delayMs == 250

\* the {title, year} objects a run may be given
BatchItems ==
    { [title |-> <<"a">>, year |-> Some(2021)],
      [title |-> <<"a", "b">>, year |-> None] }

BatchInputs == UNION {[1..n -> BatchItems] : n \in 0..MaxBatch}

\* first search results TMDB may return
TmdbCandidates ==
    { [id |-> 1, media_type |-> "movie", title |-> Some(<<"A">>),
       date |-> Some(DateText(2021))],
      [id |-> 2, media_type |-> "tv", title |-> Some(<<"b">>), date |-> None] }

NoCandidate == [id |-> 0, media_type |-> "none", title |-> None, date |-> None]

NoMatch == [matched |-> FALSE, imdbId |-> 0, type |-> "none", title |-> None,
            year |-> [nan |-> TRUE, n |-> 0], matchConfidence |-> 0]

\* the object searchTMDB returns for the first result and its IMDB id
MatchOf(item, cand, imdbId) ==
    [matched |-> TRUE,
     imdbId |-> imdbId,
     type |-> IF cand.media_type = "movie" THEN "movie" ELSE "series",
     title |-> cand.title,
     year |-> IF cand.date.some /\ cand.date.val # <<>>
              THEN ParseInt(BeforeDash(cand.date.val))
              ELSE [nan |-> TRUE, n |-> 0],
     matchConfidence |-> calculateMatchConfidence(item.title, cand.title,
                                                  item.year, cand.date)]

\* setTimeout(resolve, delayMs) armed at time t fires at t + delayMs
TimerDue(t) == t + delayMs

IdleBatch ==
    /\ bTitles = <<>>
    /\ bIndex = 0
    /\ bpc = "off"
    /\ bCand = NoCandidate
    /\ bResults = <<>>
    /\ bInFlight = {}
    /\ bTimer = 0
    /\ bSearchAt = <<>>

----------------------------------------------------------------------------
(* tmdbService.js, traktService, netflixService.js: catalog item ids *)

MaxTmdbId == 3
MaxListLen == 2

Null == <<"null">>
EmptyString == <<"">>

\* a JavaScript value that counts as true in a condition
Truthy(x) == x \notin {Undefined, Null, EmptyString}

ImdbIds == { <<"imdb", 1>>, <<"imdb", 2>> }

\* the detail request of mapTMDBToMeta: external_ids.imdb_id of an answer that
\* is ok, a non-ok status, or a fetch that throws
TmdbDetailOutcomes == ImdbIds \cup {Null, <<"notok">>, <<"throw">>}

\* response.ok of a fetch that did not throw
ResponseOk(answer) == answer \notin {<<"notok">>, <<"throw">>}

\* one entry of data.results
TmdbItem(n) == [id |-> n, title |-> <<"T", n>>, name |-> <<"N", n>>]

FetchFailed == << [id |-> 0, title |-> <<"failed">>, name |-> <<"failed">>] >>

TmdbLists ==
    UNION {[1..n -> {TmdbItem(i) : i \in 1..MaxTmdbId}] : n \in 0..MaxListLen}

\* mapTMDBToMeta that keeps the provider-local id when the lookup resolved one
mapTMDBToMeta_LocalId(item, type, answer) ==
    [id |-> <<"tmdb", item.id>>, type |-> <<type>>,
     name |-> IF type = "movie" THEN item.title ELSE item.name]

\* mapTMDBToMeta(item, type), given the answer of its detail request
mapTMDBToMeta(item, type, answer) ==
    [id |-> IF ResponseOk(answer) /\ Truthy(answer)
            THEN answer ELSE <<"tmdb", item.id>>,
     type |-> <<type>>,
     name |-> IF type = "movie" THEN item.title ELSE item.name]

\* getTrendingMovies and its siblings on a cache miss: [] when the fetch fails
TmdbListMetas(raw, type, detail) ==
    IF raw = FetchFailed THEN <<>>
    ELSE [i \in DOMAIN raw |-> mapTMDBToMeta(raw[i], type, detail[raw[i].id])]

\* combined.filter(item => !seen.has(item.id) && seen.add(item.id))
RECURSIVE FilterSeen(_, _, _)
FilterSeen(list, seen, acc) ==
    IF list = <<>> THEN acc
    ELSE IF Head(list).id \in seen
         THEN FilterSeen(Tail(list), seen, acc)
         ELSE FilterSeen(Tail(list), seen \cup {Head(list).id}, Append(acc, Head(list)))

\* getNewAndPopular that returns the two lists one after the other
getNewAndPopular_NoDedupe(type, trending, second, detail) ==
    IF type \in {"movie", "series"}
    THEN TmdbListMetas(trending, type, detail) \o TmdbListMetas(second, type, detail)
    ELSE <<>>

\* getNewAndPopular(type)
getNewAndPopular(type, trending, second, detail) ==
    IF type \in {"movie", "series"}
    THEN FilterSeen(TmdbListMetas(trending, type, detail)
                        \o TmdbListMetas(second, type, detail), {}, <<>>)
    ELSE <<>>

\* a Trakt item: ids.trakt, ids.imdb and the title
TraktItem(n, imdb) == [id |-> n, imdb |-> imdb, title |-> <<"T", n>>, name |-> <<"N", n>>]
TraktItems == {TraktItem(n, x) : n \in 1..MaxTmdbId,
                                 x \in ImdbIds \cup {Undefined, Null, EmptyString}}

\* mapTraktToMeta(item, type)
mapTraktToMeta(item, type) ==
    [id |-> IF Truthy(item.imdb) THEN item.imdb ELSE <<"trakt", item.id>>,
     type |-> <<type>>,
     name |-> item.title]

\* a scraped Netflix row that is looked up
NetflixItems == { [rank |-> 1, title |-> Hanna, weeks |-> <<"3">>],
                  [rank |-> 2, title |-> Forlat, weeks |-> <<"1">>] }

\* searchTMDB(title, type) run to its end against the answers w
RECURSIVE RunSearch(_, _, _)
RunSearch(item, task, w) ==
    CASE task.at = "search" -> RunSearch(item, AfterSearch(item, task, w), w)
      [] task.at = "detail" -> RunSearch(item, AfterDetail(item, task, w), w)
      [] OTHER -> task

IdKinds == {"newAndPopular", "tmdb", "trakt", "netflix"}
IdTypes == {"movie", "series", "channel"}
NoItem == TraktItem(0, Undefined)
NoDetail == [i \in 1..MaxTmdbId |-> <<"notok">>]
NoWorld == TmdbWorld("empty", "empty", "empty", "empty", "notok")
NoMetas == [done |-> FALSE, metas |-> <<>>]

IdleIds ==
    /\ idKind = "off"
    /\ idType = "movie"
    /\ idTrending = <<>>
    /\ idSecond = <<>>
    /\ idDetail = NoDetail
    /\ idItem = NoItem
    /\ idWorld = NoWorld
    /\ idOut = NoMetas

----------------------------------------------------------------------------
(* server.js: GET /poster/:type/:rank/:id.jpg, and posterService.js *)

MaxPosterRequests == 2

CACHE_TTL == 24 * 60 * 60 * 1000

\* the :type, :rank and :id segments a client sends
PosterTypes == {"movie", "series", "channel"}
RankTexts == { <<"0">>, <<"1">>, <<"1", "0">>, <<"1", "1">>, <<"0", "1", "0">>,
               <<"5", "x">>, <<"1", ".", "5">>, <<"x">>, <<"-", "1">> }
PosterIds == { <<"tt", 1>>, <<"tmdb:", 7>>, <<"", 7>> }

\* parseInt(rank, 10): optional sign, then the leading decimal digits
ParseIntRadix10(str) ==
    LET t    == TrimStart(str)
        neg  == t # <<>> /\ Head(t) = "-"
        rest == IF t # <<>> /\ Head(t) \in {"-", "+"} THEN Tail(t) ELSE t
        ds   == LeadingDigits(rest)
    IN  IF ds = <<>> THEN [nan |-> TRUE, n |-> 0]
        ELSE [nan |-> FALSE, n |-> IF neg THEN 0 - DigitsValue(ds) ELSE DigitsValue(ds)]

\* isNaN(rankNum) || rankNum < 1 || rankNum > 10
RankRejected(rankNum) == rankNum.nan \/ rankNum.n < 1 \/ rankNum.n > 10

\* !['movie', 'series'].includes(type)
TypeRejected(type) == type \notin {"movie", "series"}

\* what TMDB answers to the find / detail request of the route, and what
\* addBadgeToPoster does
PosterLookups == {"poster", "noposter", "notok", "throw"}
BadgeOutcomes == {"ok", "throw"}

\* `${type}:${rankNum}:${id}`
PosterKey(type, rankNum, id) == <<type, rankNum.n, id>>

PosterEntry(cache, key) == {e \in cache : e.key = key}

\* cleanExpiredCache()
cleanExpiredCache(cache, t) == {e \in cache : ~(t - e.timestamp > CACHE_TTL)}

\* getPosterWithBadge(posterUrl, rank, cacheKey): the cache afterwards and
\* whether the call threw; clean is the 10% draw of Math.random()
getPosterWithBadge(cache, key, badge, t, clean) ==
    IF \E e \in PosterEntry(cache, key) : t - e.timestamp < CACHE_TTL
    THEN [cache |-> cache, threw |-> FALSE, fresh |-> FALSE]
    ELSE LET dropped == cache \ PosterEntry(cache, key)
         IN  IF badge = "throw"
             THEN [cache |-> dropped, threw |-> TRUE, fresh |-> TRUE]
             ELSE LET stored == dropped \cup {[key |-> key, timestamp |-> t]}
                  IN  [cache |-> IF clean THEN cleanExpiredCache(stored, t) ELSE stored,
                       threw |-> FALSE, fresh |-> TRUE]

NoPosterRes == [done |-> FALSE, type |-> "movie", rank |-> <<"1">>, status |-> 0,
                lookups |-> 0, cacheChanged |-> FALSE]

PosterAnswer(type, rank, status, lookups, changed) ==
    [done |-> TRUE, type |-> type, rank |-> rank, status |-> status,
     lookups |-> lookups, cacheChanged |-> changed]

IdlePoster ==
    /\ posterCache = {}
    /\ posterRes = NoPosterRes
    /\ posterCount = 0

(* tokenManager.js and sessionManager.js: one session and its token record *)

MaxAuthTicks == 4
MaxTokens == 3
AuthTickMs == 30 * 60 * 1000

\* data.expires_in of a Trakt token answer, in seconds
ExpiresIn == 2 * 60 * 60

\* the token record of a session: null, or {access_token, refresh_token, expires_at}
NoTokens == [present |-> FALSE, access_token |-> Undefined,
             refresh_token |-> Undefined, expires_at |-> 0]

\* the record built from the n-th token answer of Trakt, received at time t
TokenData(n, t) ==
    [present |-> TRUE, access_token |-> <<"at", n>>,
     refresh_token |-> <<"rt", n>>, expires_at |-> t + (ExpiresIn * 1000)]

\* what Trakt does with a token request: answers 200, answers an error status,
\* or the request throws
TokenAnswers == {"ok", "notok", "throw"}

\* loadTokens(sessionId): Redis when there is a client (null on a miss or an
\* error), the in-memory Map otherwise
loadTokens(mem, red, mode) ==
    IF mode = "ok" THEN red
    ELSE IF mode = "throw" THEN NoTokens
    ELSE mem

\* saveTokens(sessionId, tokenData): the in-memory Map afterwards
SaveTokensStore(mem, tokenData, mode) ==
    IF mode = "ok" THEN mem ELSE tokenData

\* saveTokens(sessionId, tokenData): the Redis store afterwards
SaveTokensRedis(red, tokenData, mode) ==
    IF mode = "ok" THEN tokenData ELSE red

\* clearTokens(sessionId): the in-memory Map afterwards
ClearTokensStore(mem, mode) ==
    IF mode = "ok" THEN mem ELSE NoTokens

\* clearTokens(sessionId): the Redis store afterwards
ClearTokensRedis(red, mode) ==
    IF mode = "ok" THEN NoTokens ELSE red

\* isAuthenticated(sessionId)
isAuthenticated(mem, red, mode) ==
    LET tokens == loadTokens(mem, red, mode)
    IN  tokens.present /\ Truthy(tokens.access_token)

isTokenExpired_StrictlyPast(tokens, t) ==
    LET oneHour == 0
    IN  (~tokens.present) \/ tokens.expires_at = 0 \/ (tokens.expires_at - t) < oneHour

\* isTokenExpired(tokens) at time t
isTokenExpired(tokens, t) ==
    LET oneHour == 60 * 60 * 1000
    IN  (~tokens.present) \/ tokens.expires_at = 0 \/ (tokens.expires_at - t) < oneHour

\* refreshAccessToken(sessionId, tokens): whether it threw, whether the token
\* request was sent, the new record and both stores afterwards
refreshAccessToken(mem, red, tokens, answer, saveMode, t, n) ==
    IF ~(tokens.present /\ Truthy(tokens.refresh_token))
    THEN [threw |-> TRUE, sent |-> FALSE, tokens |-> tokens, store |-> mem, redis |-> red]
    ELSE IF answer # "ok"
    THEN [threw |-> TRUE, sent |-> TRUE, tokens |-> tokens, store |-> mem, redis |-> red]
    ELSE [threw |-> FALSE, sent |-> TRUE, tokens |-> TokenData(n, t),
          store |-> SaveTokensStore(mem, TokenData(n, t), saveMode),
          redis |-> SaveTokensRedis(red, TokenData(n, t), saveMode)]

\* getAccessToken(sessionId): the token returned (or null), what was loaded,
\* whether a refresh request went out and how it ended, and both stores afterwards
getAccessToken(mem, red, loadMode, answer, saveMode, t, n) ==
    LET tokens == loadTokens(mem, red, loadMode)
        fresh == refreshAccessToken(mem, red, tokens, answer, saveMode, t, n)
    IN  IF ~tokens.present
        THEN [token |-> Null, loaded |-> tokens, refreshSent |-> FALSE,
              refreshed |-> FALSE, store |-> mem, redis |-> red]
        ELSE IF isTokenExpired(tokens, t)
        THEN IF fresh.threw
             THEN [token |-> Null, loaded |-> tokens, refreshSent |-> fresh.sent,
                   refreshed |-> FALSE, store |-> mem, redis |-> red]
             ELSE [token |-> fresh.tokens.access_token, loaded |-> tokens,
                   refreshSent |-> TRUE, refreshed |-> TRUE,
                   store |-> fresh.store, redis |-> fresh.redis]
        ELSE [token |-> tokens.access_token, loaded |-> tokens, refreshSent |-> FALSE,
              refreshed |-> FALSE, store |-> mem, redis |-> red]

\* getTraktHeaders(sessionId): an Authorization header is set only for a token
BearerOf(token) == IF Truthy(token) THEN token ELSE Null

\* createSession(userData): the in-memory Map holds the new session afterwards
CreateSessionStore(mem, mode) == IF mode = "ok" THEN mem ELSE TRUE

\* createSession(userData): Redis holds the new session afterwards
CreateSessionRedis(red, mode) == IF mode = "ok" THEN TRUE ELSE red

\* getSession(sessionId) found session data
getSession(mem, red, mode) ==
    IF mode = "ok" THEN red
    ELSE IF mode = "throw" THEN FALSE
    ELSE mem

\* isValidSession(sessionId)
isValidSession(mem, red, mode) == getSession(mem, red, mode)

\* deleteSession(sessionId): the in-memory Map afterwards; a Redis error ends
\* the call before the Map is touched
DeleteSessionStore(mem, mode) == IF mode = "null" THEN FALSE ELSE mem

\* deleteSession(sessionId): Redis afterwards
DeleteSessionRedis(red, mode) == IF mode = "ok" THEN FALSE ELSE red

\* POST /auth/logout: const { session } = req.body || req.query, for a request
\* that names the session in its body or in its query string; body-parser
\* leaves req.body an empty object or undefined when there is no body
LogoutVias == {"body", "query"}
EmptyBodies == {"object", "undefined"}
LogoutSessionRead(via, emptyBody) == via = "body" \/ emptyBody = "undefined"

\* GET /auth/callback: how far the request gets
CallbackOutcomes == {"error", "nocode", "nocookies", "notok", "throw", "ok"}

NoAuthOp ==
    [op |-> "none", ok |-> FALSE, token |-> Null, at |-> 0, loaded |-> NoTokens,
     refreshSent |-> FALSE, absent |-> TRUE, invalid |-> FALSE, outcome |-> "none"]

AuthOp(op, ok, token, t, loaded, refreshSent, absent, invalid, outcome) ==
    [op |-> op, ok |-> ok, token |-> token, at |-> t, loaded |-> loaded,
     refreshSent |-> refreshSent, absent |-> absent, invalid |-> invalid,
     outcome |-> outcome]

IdleAuth ==
    /\ tokenStore = NoTokens
    /\ tokenRedis = NoTokens
    /\ sessionStore = FALSE
    /\ sessionRedis = FALSE
    /\ created = FALSE
    /\ issued = 0
    /\ refreshFailed = FALSE
    /\ loggedOut = FALSE
    /\ refreshes = 0
    /\ lastAuth = NoAuthOp

----------------------------------------------------------------------------
(* traktService (multi-user), addon.js, scrobbleService.js and the
   /admin/clear-cache route *)

MaxCatalogRequests == 3
MaxRecommendationCalls == 2

traktTTL == 6 * 60 * 60 * 1000
TWENTY_FOUR_HOURS == 24 * 60 * 60 * 1000

\* the one session id the OAuth flow hands out in a run
SessionId == "s1"

\* the session ids catalog requests may carry: the one above, and the id of
\* a second session
OtherSessionId == "s2"
SessionIds == {SessionId, OtherSessionId}

TraktNoun(type) == IF type = "movie" THEN "movies" ELSE "series"

\* Math.floor(skip / 20) + 1
PageOf(skip) == (skip \div 20) + 1

\* RecommendationsKey that leaves the session id of the request out of the key
RecommendationsKey_AnySession(type, sessionId, pageNo) ==
    "trakt:" \o TraktNoun(type) \o ":recommendations:" \o SessionId \o ":page"
        \o ToString(pageNo)
\* `trakt:movies:recommendations:${sessionId}:page${page}` and its series twin
RecommendationsKey(type, sessionId, pageNo) ==
    "trakt:" \o TraktNoun(type) \o ":recommendations:" \o sessionId \o ":page"
        \o ToString(pageNo)

\* `trakt:movies:trending:page${page}` and its series twin
TrendingKey(type, pageNo) ==
    "trakt:" \o TraktNoun(type) \o ":trending:page" \o ToString(pageNo)

\* `tmdb:movies:newly-released-popular:page${page}`
NewlyReleasedKey(pageNo) == "tmdb:movies:newly-released-popular:page" \o ToString(pageNo)

\* the cacheKeys array of GET /admin/clear-cache
cacheKeys ==
    << "netflix:sweden:movies:top10",
       "netflix:sweden:series:top10",
       "tmdb:movies:newly-released-popular",
       "trakt:movies:recommendations",
       "trakt:series:recommendations",
       "trakt:list:leepmc1984:new-movie-releases-digital:popularity,desc:50" >>

Skips == {0, 20}

\* every key the catalog services and the clear-cache route hand to the cache
CatalogKeys ==
    {RecommendationsKey(ty, sid, PageOf(sk)) : ty \in ContentTypes, sid \in SessionIds,
                                               sk \in Skips}
    \cup {TrendingKey(ty, PageOf(sk)) : ty \in ContentTypes, sk \in Skips}
    \cup {NewlyReleasedKey(PageOf(sk)) : sk \in Skips}
    \cup NetflixKeys
    \cup {cacheKeys[i] : i \in DOMAIN cacheKeys}

\* what an upstream request comes back with: a 200 with its data, a 401,
\* another error status, or a failed fetch
Answer(kind, data) == [kind |-> kind, data |-> data]
RecommendationAnswers ==
    {Answer("ok", <<>>), Answer("ok", <<TraktItem(1, <<"imdb", 1>>)>>),
     Answer("401", <<>>), Answer("500", <<>>), Answer("throw", <<>>)}
TrendingAnswers == {Answer("ok", <<TraktItem(2, <<"imdb", 2>>)>>), Answer("500", <<>>)}
\* the Trakt answers drawn for the requests of the catalog handler
CatalogAnswers == {Answer("ok", <<TraktItem(1, <<"imdb", 1>>)>>), Answer("401", <<>>)}
TmdbAnswers == {Answer("ok", <<TmdbItem(3)>>), Answer("500", <<>>)}
ScrapeAnswers == {Answer("ok", <<TraktItem(3, Undefined)>>), Answer("throw", <<>>)}

\* Promise.all(data.map(item => mapTraktToMeta(item, type)))
TraktMetas(data, type) == [i \in DOMAIN data |-> mapTraktToMeta(data[i], type)]

\* getTrendingMovies(skip) / getTrendingSeries(skip): the list returned, the
\* cache afterwards, and whether Trakt was asked
getTrending(st, r, type, skip, mode, answer, t) ==
    LET key == TrendingKey(type, PageOf(skip))
        cached == GetResult(st, r, key, mode, t)
        st1 == GetStore(st, key, mode, t)
        metas == TraktMetas(answer.data, type)
    IN  IF cached.hit
        THEN [metas |-> cached.value, store |-> st1, redis |-> r, fetched |-> FALSE]
        ELSE IF answer.kind = "ok"
        THEN [metas |-> metas, fetched |-> TRUE,
              store |-> SetStore(st1, key, metas, traktTTL, mode, t),
              redis |-> SetRedis(r, key, metas, traktTTL, mode, t)]
        ELSE [metas |-> <<>>, store |-> st1, redis |-> r, fetched |-> TRUE]

RecommendationsPath_NoEmptyCheck(hit, isAuth, answer) ==
    IF hit THEN "cache"
    ELSE IF ~isAuth THEN "trending"
    ELSE IF answer.kind # "ok" THEN "trending"
    ELSE "fresh"
\* getMovieRecommendations / getSeriesRecommendations: which return statement
\* is reached
RecommendationsPath(hit, isAuth, answer) ==
    IF hit THEN "cache"
    ELSE IF ~isAuth THEN "trending"
    ELSE IF answer.kind # "ok" THEN "trending"
    ELSE IF Len(answer.data) = 0 THEN "trending"
    ELSE "fresh"

\* the skip handed to getTrending*: the 401 branch of the movie function
\* calls getTrendingMovies() without it
TrendingSkip(type, isAuth, answer, skip) ==
    IF isAuth /\ answer.kind = "401" /\ type = "movie" THEN 0 ELSE skip

\* getMovieRecommendations(sessionId, skip) / getSeriesRecommendations(sessionId, skip)
getRecommendations(type, sessionId, skip, st, r, tmem, tred, mode, answer, trendAnswer, refreshAnswer, t, n) ==
    LET key == RecommendationsKey(type, sessionId, PageOf(skip))
        cached == GetResult(st, r, key, mode, t)
        st1 == GetStore(st, key, mode, t)
        isAuth == isAuthenticated(tmem, tred, mode)
        path == RecommendationsPath(cached.hit, isAuth, answer)
        requested == (~cached.hit) /\ isAuth
        \* getTraktHeaders(sessionId)
        acc == getAccessToken(tmem, tred, mode, refreshAnswer, mode, t, n)
        trend == getTrending(st1, r, type, TrendingSkip(type, isAuth, answer, skip),
                             mode, trendAnswer, t)
        metas == TraktMetas(answer.data, type)
    IN  [path |-> path,
         raised |-> FALSE,
         requested |-> requested,
         bearer |-> IF requested THEN BearerOf(acc.token) ELSE Null,
         refreshSent |-> requested /\ acc.refreshSent,
         refreshed |-> requested /\ acc.refreshed,
         tokenStore |-> IF requested THEN acc.store ELSE tmem,
         tokenRedis |-> IF requested THEN acc.redis ELSE tred,
         trending |-> IF path = "trending" THEN trend.metas ELSE <<>>,
         trendPage |-> PageOf(TrendingSkip(type, isAuth, answer, skip)),
         trendFetched |-> path = "trending" /\ trend.fetched,
         metas |-> CASE path = "cache" -> cached.value
                     [] path = "trending" -> trend.metas
                     [] OTHER -> metas,
         store |-> CASE path = "cache" -> st1
                     [] path = "trending" -> trend.store
                     [] OTHER -> SetStore(st1, key, metas, traktTTL, mode, t),
         redis |-> CASE path = "cache" -> r
                     [] path = "trending" -> trend.redis
                     [] OTHER -> SetRedis(r, key, metas, traktTTL, mode, t)]

\* getNewlyReleasedPopular(skip)
getNewlyReleasedPopular(st, r, skip, mode, answer, t) ==
    LET key == NewlyReleasedKey(PageOf(skip))
        cached == GetResult(st, r, key, mode, t)
        st1 == GetStore(st, key, mode, t)
        metas == [i \in DOMAIN answer.data |->
                     mapTMDBToMeta(answer.data[i], "movie", Null)]
    IN  IF cached.hit
        THEN [metas |-> cached.value, store |-> st1, redis |-> r, path |-> "cache"]
        ELSE IF answer.kind = "ok"
        THEN [metas |-> metas, path |-> "fresh",
              store |-> SetStore(st1, key, metas, TWENTY_FOUR_HOURS, mode, t),
              redis |-> SetRedis(r, key, metas, TWENTY_FOUR_HOURS, mode, t)]
        ELSE [metas |-> <<>>, store |-> st1, redis |-> r, path |-> "fresh"]

\* getNetflixTop10Movies() / getNetflixTop10Series(), with the scrape and its
\* enrichment taken as one upstream answer
getNetflixTop10(st, r, type, mode, answer, t) ==
    LET key == NetflixKey(type)
        cached == GetResult(st, r, key, mode, t)
        st1 == GetStore(st, key, mode, t)
        metas == TraktMetas(answer.data, type)
    IN  IF cached.hit
        THEN [metas |-> cached.value, store |-> st1, redis |-> r, path |-> "cache"]
        ELSE IF answer.kind = "ok"
        THEN [metas |-> metas, path |-> "fresh",
              store |-> SetStore(st1, key, metas, netflixTTL, mode, t),
              redis |-> SetRedis(r, key, metas, netflixTTL, mode, t)]
        ELSE [metas |-> getFallbackData(type), store |-> st1, redis |-> r,
              path |-> "fresh"]

\* metas.slice(skip, skip + limit)
Slice(list, skip, limit) == SubSeq(list, skip + 1, Min(Len(list), skip + limit))

\* GET /admin/clear-cache: cache.clear(key) for the keys from index i on
RECURSIVE ClearAll(_, _, _, _)
ClearAll(st, r, mode, i) ==
    IF i > Len(cacheKeys) THEN [store |-> st, redis |-> r]
    ELSE ClearAll(ClearStore(st, cacheKeys[i], mode),
                  ClearRedis(r, cacheKeys[i], mode), mode, i + 1)

\* the catalogs the clear-cache answer lists, as the cache keys their
\* services read
ReportedKeys ==
    {RecommendationsKey(ty, SessionId, 1) : ty \in ContentTypes}
    \cup {NewlyReleasedKey(1)}
    \cup NetflixKeys

\* the entries of the reported catalogs that are in a store
Entries(st, r) ==
    {<<"store", k>> : k \in {j \in ReportedKeys : st[j].present}}
    \cup {<<"redis", k>> : k \in {j \in ReportedKeys : r[j].present}}

\* the store a cache call works on under a Redis condition
Backend(mode) == IF mode = "ok" THEN "redis" ELSE "store"

\* parseStremioId(id).imdbId, for an id given as its ':'-separated parts
StreamIds == { <<"tt1">>, <<"tt1", "1", "2">>, <<"tmdb", "603">>, <<"", "1", "1">>, <<>> }
parseStremioId(id) == IF id = <<>> THEN Null ELSE <<id[1]>>

ScrobbleStarts_AnySession(imdbId, sessionId, valid) ==
    Truthy(imdbId) /\ Truthy(sessionId)
\* the stream handler: markAsWatched is called
ScrobbleStarts(imdbId, sessionId, valid) ==
    Truthy(imdbId) /\ Truthy(sessionId) /\ valid

\* what extractSession(args) hands the handlers: null or a session id
ExtractedSessions == {Null, <<SessionId>>}

NoCatalogOp ==
    [op |-> "none", type |-> "movie", session |-> Null, valid |-> FALSE,
     noToken |-> FALSE, answer |-> "none", empty |-> FALSE, path |-> "none",
     raised |-> FALSE, metas |-> <<>>, trending |-> <<>>, bearer |-> Null,
     stale |-> FALSE, fetched |-> FALSE, afterClear |-> FALSE]

CatalogOp(op, type, session, valid, noToken, answer, empty, path, raised, metas, trending, bearer, stale, fetched, afterClear) ==
    [op |-> op, type |-> type, session |-> session, valid |-> valid,
     noToken |-> noToken, answer |-> answer, empty |-> empty, path |-> path,
     raised |-> raised, metas |-> metas, trending |-> trending, bearer |-> bearer,
     stale |-> stale, fetched |-> fetched, afterClear |-> afterClear]

NoStream == [done |-> FALSE, streams |-> <<>>, started |-> FALSE, parsed |-> FALSE,
             session |-> Null, valid |-> FALSE, scrobbleAtAnswer |-> "none"]

IdleCatalog ==
    /\ catRes = NoCatalogOp
    /\ catCount = 0
    /\ oldEntries = {}
    /\ clearedOnce = FALSE
    /\ streamRes = NoStream
    /\ scrobble = "none"

IdleTrakt == IdleAuth /\ IdleCatalog

----------------------------------------------------------------------------
(* addon.js: the catalog handler, in its pair-code and its paged version *)

HandlerVersions == {"paircode", "paged"}
CatalogIds == {"trakt-recommendations", "netflix-sweden-top10", "new-and-popular",
               "tmdb-new-releases", "imdb-top"}
HandlerTypes == {"movie", "series", "channel"}

\* extra.skip as the SDK hands it over: absent, or the text of the URL
SkipTexts == {Undefined, <<"0">>, <<"2">>, <<"x">>, <<"-", "1">>}

\* what the awaited service call does: it resolves with a list, resolves
\* with something that is no list, or rejects
NotAList == <<"undefined">>
ServiceOutcomes ==
    {[kind |-> "list", data |-> <<>>],
     [kind |-> "list", data |-> <<"m1", "m2", "m3">>],
     [kind |-> "undefined", data |-> NotAList],
     [kind |-> "throw", data |-> <<>>]}

\* Array.prototype.slice(start, end)
JsSlice(list, start, end) ==
    LET len == Len(list)
        from == IF start < 0 THEN (IF len + start < 0 THEN 0 ELSE len + start)
                ELSE Min(start, len)
        to == IF end < 0 THEN (IF len + end < 0 THEN 0 ELSE len + end)
              ELSE Min(end, len)
    IN  SubSeq(list, from + 1, to)

\* parseInt(extra?.skip) || 0
SkipOrZero(skipText) ==
    IF skipText = Undefined THEN 0
    ELSE LET n == ParseIntRadix10(skipText) IN IF n.nan THEN 0 ELSE n.n

\* the switch of the handler: which service function is awaited, "empty" for
\* an early return of { metas: [] }, "none" when metas stays []
RoutedService(version, id, type, sessionId, valid) ==
    CASE id = "trakt-recommendations" ->
            IF ~Truthy(sessionId) \/ ~valid THEN "empty"
            ELSE IF type \in {"movie", "series"} THEN "trakt"
            ELSE "none"
      [] id = "netflix-sweden-top10" ->
            IF type = "movie" THEN "netflix" ELSE "none"
      [] id = "new-and-popular" /\ version = "paircode" -> "tmdb"
      [] id = "tmdb-new-releases" /\ version = "paged" ->
            IF type \in {"movie", "series"} THEN "tmdb" ELSE "none"
      [] OTHER -> "empty"

\* the statements after the switch: the slice of the pair-code version, the
\* metas.length of the log line in both; threw tells that they raised
AfterSwitch(version, metas, skipText) ==
    IF metas = NotAList THEN [threw |-> TRUE, metas |-> <<>>]
    ELSE IF version = "paircode"
    THEN [threw |-> FALSE,
          metas |-> JsSlice(metas, SkipOrZero(skipText), SkipOrZero(skipText) + 100)]
    ELSE [threw |-> FALSE, metas |-> metas]

HandlerCatch_Rethrow(threw, metas) ==
    IF threw THEN [raised |-> TRUE, caught |-> FALSE, metas |-> NotAList]
    ELSE [raised |-> FALSE, caught |-> FALSE, metas |-> metas]
\* try { ... return { metas } } catch (error) { return { metas: [] } }
HandlerCatch(threw, metas) ==
    IF threw THEN [raised |-> FALSE, caught |-> TRUE, metas |-> <<>>]
    ELSE [raised |-> FALSE, caught |-> FALSE, metas |-> metas]

\* builder.defineCatalogHandler(async (args) => ...)
catalogHandler(version, id, type, skipText, sessionId, valid, outcome) ==
    LET routed == RoutedService(version, id, type, sessionId, valid)
        after == AfterSwitch(version, outcome.data, skipText)
        none == AfterSwitch(version, <<>>, skipText)
    IN  CASE routed = "empty" -> HandlerCatch(FALSE, <<>>)
          [] routed = "none" -> HandlerCatch(none.threw, none.metas)
          [] outcome.kind = "throw" -> HandlerCatch(TRUE, <<>>)
          [] OTHER -> HandlerCatch(after.threw, after.metas)

NoCatalogArgs ==
    [version |-> "paircode", id |-> "imdb-top", type |-> "movie", skip |-> Undefined,
     session |-> Null, valid |-> FALSE, outcome |-> [kind |-> "list", data |-> <<>>]]
NoCatalogReply == [done |-> FALSE, raised |-> FALSE, caught |-> FALSE, metas |-> <<>>]

IdleHandler ==
    /\ catalogArgs = NoCatalogArgs
    /\ catalogReply = NoCatalogReply

----------------------------------------------------------------------------
(* titleMatcher.js: searchTMDB as a function of what TMDB answers *)

\* data.results of /search/multi: up to two candidates, in TMDB's order
ResultLists == UNION {[1..n -> TmdbCandidates] : n \in 0..2}

\* the search response: a status with its results, or a fetch that failed
SearchReplies ==
    {[kind |-> "ok", results |-> rs] : rs \in ResultLists}
    \cup {[kind |-> "notok", results |-> <<>>], [kind |-> "throw", results |-> <<>>]}

\* what the external_ids request answers for each TMDB id
ImdbReplies == [{c.id : c \in TmdbCandidates} -> {"id", "none", "notok", "throw"}]

\* getIMDBIdFromTMDB(tmdbId, mediaType): the id, or 0 for null
getIMDBIdFromTMDB(tmdbId, imdb) == IF imdb[tmdbId] = "id" THEN 7000 + tmdbId ELSE 0

PickResult_HighestScore(item, results) ==
    CHOOSE r \in {results[i] : i \in DOMAIN results} :
        \A i \in DOMAIN results :
            calculateMatchConfidence(item.title, results[i].title, item.year,
                                     results[i].date)
                <= calculateMatchConfidence(item.title, r.title, item.year, r.date)
\* const result = data.results[0]
PickResult(item, results) == results[1]

\* searchTMDB(title, year)
searchTMDB(item, response, imdb) ==
    IF response.kind # "ok" THEN NoMatch
    ELSE IF response.results = <<>> THEN NoMatch
    ELSE LET result == PickResult(item, response.results)
             imdbId == getIMDBIdFromTMDB(result.id, imdb)
         IN  IF imdbId = 0 THEN NoMatch ELSE MatchOf(item, result, imdbId)

NoSearchArgs ==
    [item |-> [title |-> <<"a">>, year |-> None],
     reply |-> [kind |-> "notok", results |-> <<>>],
     imdb |-> [i \in {c.id : c \in TmdbCandidates} |-> "none"]]
NoSearchResult == [done |-> FALSE, raised |-> FALSE, match |-> NoMatch]

IdleMatcher ==
    /\ searchArgs = NoSearchArgs
    /\ searchResult = NoSearchResult

----------------------------------------------------------------------------
(* sessionManager.js and tokenManager.js: how long a record is kept *)

MaxRetentionTicks == 3
MaxRetentionWrites == 2

\* { EX: 90 * 24 * 60 * 60 }, in days
NinetyDays == (90 * 24 * 60 * 60) \div (24 * 60 * 60)

\* the step of the clock: half of the Redis lifetime
RetentionTickDays == NinetyDays \div 2

\* redis.get(key) at time t: a key whose EX has run out is gone
LiveSession(red, expiry, t) == red /\ t < expiry
LiveTokens(red, expiry, t) == IF t < expiry THEN red ELSE NoTokens

\* redis.set(key, value, { EX }): the expiry of the key afterwards
ExpiryAfterSet(expiry, mode, t) == IF mode = "ok" THEN t + NinetyDays ELSE expiry

NoRetained == [done |-> FALSE, session |-> FALSE, valid |-> FALSE,
               tokens |-> NoTokens, backend |-> "none", at |-> 0,
               sessionAge |-> -1, tokenAge |-> -1]

IdleRetention ==
    /\ sessionExpiry = 0
    /\ tokenExpiry = 0
    /\ sessionWritten = -1
    /\ tokenWritten = -1
    /\ retained = NoRetained
    /\ writes = 0
    /\ day = 0

----------------------------------------------------------------------------
(* tmdbService.js: two getTrendingMovies() calls in flight at once *)

Requests == {1, 2}

tmdbTTL == 2 * 60 * 60 * 1000

\* cacheKey of getTrendingMovies
TrendingMoviesKey == "tmdb:movies:trending"

\* data.results of the trending endpoint at two moments
RaceLists == { <<TmdbItem(1), TmdbItem(2)>>, <<TmdbItem(3)>> }

\* what the trending fetch of one request ends with, the answers to the
\* detail requests of mapTMDBToMeta included
RaceAnswers ==
    {[kind |-> "ok", results |-> l, detail |-> d] : l \in RaceLists, d \in {Null, <<"imdb", 1>>}}
    \cup {[kind |-> "notok", results |-> <<>>, detail |-> Null],
          [kind |-> "throw", results |-> <<>>, detail |-> Null]}

\* Promise.all(data.results.map(item => mapTMDBToMeta(item, 'movie')))
RaceMetas(answer) ==
    [i \in DOMAIN answer.results |-> mapTMDBToMeta(answer.results[i], "movie", answer.detail)]

NoWrite == [by |-> 0, backend |-> "none"]

IdleRace ==
    /\ racePc = [p \in Requests |-> "off"]
    /\ raceMissed = [p \in Requests |-> FALSE]
    /\ raceMetas = [p \in Requests |-> <<>>]
    /\ raceOut = [p \in Requests |-> <<>>]
    /\ lastWrite = NoWrite

----------------------------------------------------------------------------
(* traktService: recommendation entries of more than one session *)

\* the token record of the second session: issued at time 0, not yet expiring
OtherTokens == TokenData(2, 0)

NoOwner == [session |-> "none", pageNo |-> 0]
Owner(sessionId, pageNo) == [session |-> sessionId, pageNo |-> pageNo]

NoRec == [done |-> FALSE, session |-> "none", type |-> "movie", skip |-> 0,
          path |-> "none", auth |-> FALSE, answer |-> "none", empty |-> FALSE,
          readFrom |-> NoOwner, trendPage |-> 0]

IdleOwners ==
    /\ entryOwner = [b \in {"store", "redis"} |-> [k \in CatalogKeys |-> NoOwner]]
    /\ lastRec = NoRec

----------------------------------------------------------------------------
(* tokenManager.js: two getAccessToken(sessionId) calls in flight at once *)

IdleRefresh ==
    /\ tokPc = [p \in Requests |-> "off"]
    /\ tokSent = [p \in Requests |-> Null]
    /\ tokNew = [p \in Requests |-> NoTokens]
    /\ tokOut = [p \in Requests |-> Null]

----------------------------------------------------------------------------
(* The Netflix import route: POST /api/import-netflix and its SSE progress
   connections *)

MaxImports == 2

\* the ways a request ends: the status it answers with and whether its path
\* closes the SSE connection (connection.end() and activeConnections.delete)
ImportPaths == {"nocsv", "parsefail", "nomatch", "syncfail", "success", "exception"}

ImportStatus(path) ==
    CASE path \in {"nocsv", "parsefail"} -> 400
      [] path \in {"syncfail", "exception"} -> 500
      [] OTHER -> 200

\* the paths with a "Close SSE connection" block before their response
ClosesConnection(path) == path \in {"nomatch", "syncfail", "success", "exception"}

NoImport == [done |-> FALSE, session |-> "none", path |-> "none", status |-> 0,
             registered |-> FALSE, remaining |-> FALSE]

IdleImport ==
    /\ activeConnections = {}
    /\ importPc = "off"
    /\ importSession = "none"
    /\ importRes = NoImport
    /\ importCount = 0

IdleRequests ==
    /\ IdleHandler /\ IdleMatcher /\ IdleRetention /\ IdleRace /\ IdleOwners
    /\ IdleRefresh /\ IdleImport

IdleServices == IdleIds /\ IdlePoster /\ IdleTrakt /\ IdleRequests

----------------------------------------------------------------------------
(* The cache on its own *)

InitCacheVars ==
    /\ now = 0
    /\ redisUrl \in BOOLEAN
    /\ store = [k \in CacheKeys |-> Absent]
    /\ redis = [k \in CacheKeys |-> Absent]
    /\ setLog = [k \in CacheKeys |-> NeverSet]
    /\ lastGet = NoGet

Set(k, v, ttl, mode) ==
    /\ store' = SetStore(store, k, v, ttl, mode, now)
    /\ redis' = SetRedis(redis, k, v, ttl, mode, now)
    /\ setLog' = [setLog EXCEPT ![k] =
                    [isSet |-> TRUE, value |-> v, ttl |-> ttl, at |-> now,
                     cleared |-> FALSE]]
    /\ lastGet' = NoGet
    /\ UNCHANGED <<now, redisUrl>>

Get(k, mode) ==
    /\ store' = GetStore(store, k, mode, now)
    /\ lastGet' = [done |-> TRUE, key |-> k, at |-> now,
                   result |-> GetResult(store, redis, k, mode, now),
                   mode |-> mode]
    /\ UNCHANGED <<now, redisUrl, redis, setLog>>

Clear(k, mode) ==
    /\ store' = ClearStore(store, k, mode)
    /\ redis' = ClearRedis(redis, k, mode)
    /\ setLog' = [setLog EXCEPT ![k].cleared = TRUE]
    /\ lastGet' = NoGet
    /\ UNCHANGED <<now, redisUrl>>

Tick ==
    /\ now + TickMs <= MaxTime
    /\ now' = now + TickMs
    /\ UNCHANGED <<redisUrl, store, redis, setLog, lastGet>>

CacheSetCall == \E k \in CacheKeys, v \in CacheValues, ttl \in CacheTTLs,
                   mode \in ModesFor(redisUrl) : Set(k, v, ttl, mode)
CacheGetCall == \E k \in CacheKeys, mode \in ModesFor(redisUrl) : Get(k, mode)
CacheClearCall == \E k \in CacheKeys, mode \in ModesFor(redisUrl) : Clear(k, mode)

NextCache == CacheSetCall \/ CacheGetCall \/ CacheClearCall \/ Tick

InitCache == InitCacheVars /\ IdleMatch /\ IdleNetflix /\ IdleBatch /\ IdleServices

SpecCache == InitCache /\ [][NextCache /\ UNCHANGED <<matchVars, netflixVars, batchVars, serviceVars>>]_vars

----------------------------------------------------------------------------
(* The confidence score on its own *)

IdleCache ==
    /\ now = 0
    /\ redisUrl = FALSE
    /\ store = [k \in CacheKeys |-> Absent]
    /\ redis = [k \in CacheKeys |-> Absent]
    /\ setLog = [k \in CacheKeys |-> NeverSet]
    /\ lastGet = NoGet

NextMatch == Calculate /\ UNCHANGED <<cacheVars, netflixVars, batchVars, serviceVars>>

InitMatch == InitMatchVars /\ IdleCache /\ IdleNetflix /\ IdleBatch /\ IdleServices

SpecMatch == InitMatch /\ [][NextMatch]_vars

----------------------------------------------------------------------------
(* The Netflix Top-10 reconciler: getNetflixTop10Movies / getNetflixTop10Series *)

MaxRequests == 2
MaxDays == 1

\* the step of the clock between requests: just over one cache lifetime
DayMs == netflixTTL + 1

AllDone(ts) == \A i \in DOMAIN ts : ts[i].at = "done"

RECURSIVE MatchedOnly(_, _, _, _)
MatchedOnly(items, ts, type, i) ==
    IF i > Len(items) THEN <<>>
    ELSE (IF ts[i].found THEN <<ItemMeta(items[i], ts[i], type)>> ELSE <<>>)
             \o MatchedOnly(items, ts, type, i + 1)

\* Metas that leaves out the items TMDB did not match
Metas_MatchedOnly(items, ts, type) == MatchedOnly(items, ts, type, 1)

\* await Promise.all(metasPromises): the metas in the order of the items
Metas(items, ts, type) ==
    [i \in DOMAIN items |-> ItemMeta(items[i], ts[i], type)]

\* EmptyParseResult that returns an empty catalog
EmptyParseResult_Empty(type) == <<>>

\* what scrapeNetflixTop10 returns when no row yielded a title
EmptyParseResult(type) == getFallbackData(type)

\* what the catch block of scrapeNetflixTop10 returns
ScrapeErrorResult(type) == getFallbackData(type)

InitNetflix ==
    /\ now = 0
    /\ redisUrl \in BOOLEAN
    /\ store = [k \in NetflixKeys |-> Absent]
    /\ redis = [k \in NetflixKeys |-> Absent]
    /\ setLog = [k \in NetflixKeys |-> NeverSet]
    /\ lastGet = NoGet
    /\ IdleMatch
    /\ IdleBatch
    /\ IdleServices
    /\ apiKey \in BOOLEAN
    /\ page \in (IF apiKey THEN ShortPages ELSE ShortPages \cup LongPages)
    /\ world \in (IF apiKey THEN Worlds
                  ELSE {TmdbWorld("empty", "empty", "empty", "empty", "notok")})
    /\ pc = "idle"
    /\ rtype = "movie"
    /\ top10Items = <<>>
    /\ tasks = <<>>
    /\ reply = NoReply
    /\ requests = 0

\* scrapeNetflixTop10 returns metas; the caller writes them to the cache and
\* returns them
Complete(metas, via, fetch, parsed) ==
    /\ \E mode \in ModesFor(redisUrl) :
           /\ store' = SetStore(store, NetflixKey(rtype), metas, netflixTTL, mode, now)
           /\ redis' = SetRedis(redis, NetflixKey(rtype), metas, netflixTTL, mode, now)
    /\ UNCHANGED <<now, redisUrl, setLog, lastGet>>
    /\ reply' = [done |-> TRUE, type |-> rtype, metas |-> metas, via |-> via,
                 fetch |-> fetch, parsed |-> parsed]
    /\ pc' = "idle"
    /\ requests' = requests + 1
    /\ top10Items' = <<>>
    /\ tasks' = <<>>
    /\ UNCHANGED <<apiKey, page, world, rtype>>

\* a request arrives: cache.get, then either the cached list is returned or
\* the page fetch is started
RequestTop10 ==
    \E type \in ContentTypes, mode \in ModesFor(redisUrl) :
        /\ pc = "idle"
        /\ requests < MaxRequests
        /\ store' = GetStore(store, NetflixKey(type), mode, now)
        /\ UNCHANGED <<now, redisUrl, redis, setLog, lastGet>>
        /\ rtype' = type
        /\ IF GetResult(store, redis, NetflixKey(type), mode, now).hit
           THEN /\ reply' = [done |-> TRUE, type |-> type,
                             metas |-> GetResult(store, redis, NetflixKey(type),
                                                 mode, now).value,
                             via |-> "cache",
                             fetch |-> "none", parsed |-> <<>>]
                /\ pc' = "idle"
                /\ requests' = requests + 1
           ELSE /\ reply' = NoReply
                /\ pc' = "fetching"
                /\ requests' = requests
        /\ UNCHANGED <<apiKey, page, world, top10Items, tasks>>

\* the page fetch ends: a non-success status, a thrown error, or the page
PageResponse ==
    \E outcome \in {"ok", "notok", "throw"} :
        /\ pc = "fetching"
        /\ IF outcome # "ok"
           THEN Complete(ScrapeErrorResult(rtype), "fallback", outcome, <<>>)
           ELSE LET parsed  == ExtractRows(page, <<>>)
                    limited == LimitItems(parsed)
                    started == [i \in DOMAIN limited |-> StartTask(limited[i], apiKey)]
                IN  IF parsed = <<>>
                    THEN Complete(EmptyParseResult(rtype), "fallback", "ok", <<>>)
                    ELSE IF AllDone(started)
                    THEN Complete(Metas(limited, started, rtype), "scrape", "ok", parsed)
                    ELSE /\ pc' = "enriching"
                         /\ top10Items' = parsed
                         /\ tasks' = started
                         /\ UNCHANGED <<cacheVars, apiKey, page, world, rtype,
                                        reply, requests>>

\* one map callback moves on; when it was the last, Promise.all resolves
TaskStep(i, task) ==
    LET ts == [tasks EXCEPT ![i] = task]
    IN  IF AllDone(ts)
        THEN Complete(Metas(LimitItems(top10Items), ts, rtype), "scrape", "ok",
                      top10Items)
        ELSE /\ tasks' = ts
             /\ UNCHANGED <<cacheVars, apiKey, page, world, pc, rtype,
                            top10Items, reply, requests>>

\* TMDB answers the search request of one item
SearchResponse ==
    \E i \in DOMAIN tasks :
        /\ pc = "enriching"
        /\ tasks[i].at = "search"
        /\ TaskStep(i, AfterSearch(LimitItems(top10Items)[i], tasks[i], world))

\* TMDB answers the detail request of one item
DetailResponse ==
    \E i \in DOMAIN tasks :
        /\ pc = "enriching"
        /\ tasks[i].at = "detail"
        /\ TaskStep(i, AfterDetail(LimitItems(top10Items)[i], tasks[i], world))

\* time passes between requests
NetflixTick ==
    /\ pc = "idle"
    /\ now + DayMs <= MaxDays * DayMs
    /\ now' = now + DayMs
    /\ UNCHANGED <<redisUrl, store, redis, setLog, lastGet, netflixVars>>

NextNetflix ==
    \/ RequestTop10 /\ UNCHANGED <<matchVars, batchVars, serviceVars>>
    \/ PageResponse /\ UNCHANGED <<matchVars, batchVars, serviceVars>>
    \/ SearchResponse /\ UNCHANGED <<matchVars, batchVars, serviceVars>>
    \/ DetailResponse /\ UNCHANGED <<matchVars, batchVars, serviceVars>>
    \/ NetflixTick /\ UNCHANGED <<matchVars, batchVars, serviceVars>>

SpecNetflix == InitNetflix /\ [][NextNetflix]_vars

----------------------------------------------------------------------------
(* One run of batchSearch *)

InitBatch ==
    /\ IdleCache
    /\ IdleMatch
    /\ IdleNetflix
    /\ IdleServices
    /\ bTitles \in BatchInputs
    /\ bIndex = 0
    /\ bpc = "idle"
    /\ bCand = NoCandidate
    /\ bResults = <<>>
    /\ bInFlight = {}
    /\ bTimer = 0
    /\ bSearchAt = <<>>

\* searchTMDB(item.title, item.year) up to its first await: the search request
\* for item i goes out
IssueSearch(i) ==
    /\ bIndex' = i
    /\ bpc' = "search"
    /\ bInFlight' = bInFlight \cup {[i |-> i, kind |-> "search"]}
    /\ bSearchAt' = Append(bSearchAt, now)

\* batchSearch is called: an empty list returns at once, otherwise the first
\* iteration starts
BatchStart ==
    /\ bpc = "idle"
    /\ IF bTitles = <<>>
       THEN /\ bpc' = "done"
            /\ UNCHANGED <<bIndex, bInFlight, bSearchAt>>
       ELSE IssueSearch(1)
    /\ UNCHANGED <<bTitles, bCand, bResults, bTimer>>

\* results.push({original, match}), then the rate limiting delay unless this
\* was the last title
PushResult(match) ==
    /\ bResults' = Append(bResults, [original |-> bTitles[bIndex], match |-> match])
    /\ IF bIndex < Len(bTitles)
       THEN /\ bpc' = "delay"
            /\ bTimer' = TimerDue(now)
       ELSE /\ bpc' = "done"
            /\ bTimer' = bTimer

\* the search response arrives: no usable result ends searchTMDB with null,
\* a first result sends the external_ids request
BatchSearchResponse ==
    /\ bpc = "search"
    /\ [i |-> bIndex, kind |-> "search"] \in bInFlight
    /\ \/ /\ \E answer \in {"notok", "throw", "empty"} :
                PushResult(NoMatch)
          /\ bInFlight' = bInFlight \ {[i |-> bIndex, kind |-> "search"]}
          /\ UNCHANGED <<bTitles, bIndex, bCand, bSearchAt>>
       \/ /\ \E cand \in TmdbCandidates : bCand' = cand
          /\ bpc' = "imdb"
          /\ bInFlight' = (bInFlight \ {[i |-> bIndex, kind |-> "search"]})
                              \cup {[i |-> bIndex, kind |-> "imdb"]}
          /\ UNCHANGED <<bTitles, bIndex, bResults, bTimer, bSearchAt>>

\* the external_ids response arrives: without an IMDB id searchTMDB returns null
BatchImdbResponse ==
    /\ bpc = "imdb"
    /\ [i |-> bIndex, kind |-> "imdb"] \in bInFlight
    /\ \E answer \in {"notok", "none", "id"} :
          PushResult(IF answer = "id"
                     THEN MatchOf(bTitles[bIndex], bCand, 7000 + bCand.id)
                     ELSE NoMatch)
    /\ bInFlight' = bInFlight \ {[i |-> bIndex, kind |-> "imdb"]}
    /\ bCand' = NoCandidate
    /\ UNCHANGED <<bTitles, bIndex, bSearchAt>>

\* the delay timer fires: the next iteration starts
BatchTimer ==
    /\ bpc = "delay"
    /\ now >= bTimer
    /\ IssueSearch(bIndex + 1)
    /\ UNCHANGED <<bTitles, bCand, bResults, bTimer>>

BatchTick ==
    /\ bpc \notin {"off", "done"}
    /\ now + BatchTickMs <= MaxBatchTime
    /\ now' = now + BatchTickMs
    /\ UNCHANGED <<redisUrl, store, redis, setLog, lastGet, batchVars>>

NextBatch ==
    \/ BatchStart /\ UNCHANGED <<cacheVars, matchVars, netflixVars, serviceVars>>
    \/ BatchSearchResponse /\ UNCHANGED <<cacheVars, matchVars, netflixVars, serviceVars>>
    \/ BatchImdbResponse /\ UNCHANGED <<cacheVars, matchVars, netflixVars, serviceVars>>
    \/ BatchTimer /\ UNCHANGED <<cacheVars, matchVars, netflixVars, serviceVars>>
    \/ BatchTick /\ UNCHANGED <<matchVars, netflixVars, serviceVars>>

SpecBatch == InitBatch /\ [][NextBatch]_vars

----------------------------------------------------------------------------
(* The title searches of the add-on: a run is either Top-10 requests or one
   batchSearch *)

InitSearches == InitNetflix \/ InitBatch

NextSearches == NextNetflix \/ NextBatch

SpecSearches == InitSearches /\ [][NextSearches]_vars

----------------------------------------------------------------------------
(* Catalog item ids: getNewAndPopular, mapTMDBToMeta, mapTraktToMeta and the
   Netflix enrichment, each run once on inputs drawn from small sets *)

InitIds ==
    /\ IdleCache
    /\ IdleMatch
    /\ IdleNetflix
    /\ IdleBatch
    /\ IdlePoster
    /\ IdleRequests
    /\ IdleTrakt
    /\ idKind \in IdKinds
    /\ idType \in (IF idKind = "newAndPopular" THEN IdTypes ELSE ContentTypes)
    /\ idTrending \in (IF idKind = "newAndPopular"
                       THEN TmdbLists \cup {FetchFailed} ELSE {<<>>})
    /\ idSecond \in (IF idKind = "newAndPopular"
                     THEN TmdbLists \cup {FetchFailed} ELSE {<<>>})
    /\ idDetail \in (IF idKind \in {"newAndPopular", "tmdb"}
                     THEN [1..MaxTmdbId -> TmdbDetailOutcomes] ELSE {NoDetail})
    /\ idItem \in (CASE idKind = "tmdb" -> {TraktItem(n, Undefined) : n \in 1..MaxTmdbId}
                     [] idKind = "trakt" -> TraktItems
                     [] idKind = "netflix" ->
                            {TraktItem(i.rank, Undefined) : i \in NetflixItems}
                     [] OTHER -> {NoItem})
    /\ idWorld \in (IF idKind = "netflix" THEN Worlds ELSE {NoWorld})
    /\ idOut = NoMetas

\* the Netflix row that idItem stands for
NetflixItemOf(item) == CHOOSE i \in NetflixItems : i.rank = item.id

NewAndPopularCall ==
    /\ idKind = "newAndPopular"
    /\ ~idOut.done
    /\ idOut' = [done |-> TRUE,
                 metas |-> getNewAndPopular(idType, idTrending, idSecond, idDetail)]
    /\ UNCHANGED <<idKind, idType, idTrending, idSecond, idDetail, idItem, idWorld>>

MapTmdbCall ==
    /\ idKind = "tmdb"
    /\ ~idOut.done
    /\ idOut' = [done |-> TRUE,
                 metas |-> <<mapTMDBToMeta(TmdbItem(idItem.id), idType,
                                           idDetail[idItem.id])>>]
    /\ UNCHANGED <<idKind, idType, idTrending, idSecond, idDetail, idItem, idWorld>>

MapTraktCall ==
    /\ idKind = "trakt"
    /\ ~idOut.done
    /\ idOut' = [done |-> TRUE, metas |-> <<mapTraktToMeta(idItem, idType)>>]
    /\ UNCHANGED <<idKind, idType, idTrending, idSecond, idDetail, idItem, idWorld>>

MapNetflixCall ==
    /\ idKind = "netflix"
    /\ ~idOut.done
    /\ LET item == NetflixItemOf(idItem)
       IN  idOut' = [done |-> TRUE,
                     metas |-> <<ItemMeta(item,
                                          RunSearch(item, StartTask(item, TRUE), idWorld),
                                          idType)>>]
    /\ UNCHANGED <<idKind, idType, idTrending, idSecond, idDetail, idItem, idWorld>>

NextIds ==
    \/ NewAndPopularCall /\ UNCHANGED <<cacheVars, matchVars, netflixVars, batchVars, posterVars, traktVars, requestVars>>
    \/ MapTmdbCall /\ UNCHANGED <<cacheVars, matchVars, netflixVars, batchVars, posterVars, traktVars, requestVars>>
    \/ MapTraktCall /\ UNCHANGED <<cacheVars, matchVars, netflixVars, batchVars, posterVars, traktVars, requestVars>>
    \/ MapNetflixCall /\ UNCHANGED <<cacheVars, matchVars, netflixVars, batchVars, posterVars, traktVars, requestVars>>

SpecIds == InitIds /\ [][NextIds]_vars

----------------------------------------------------------------------------
(* The poster route *)

InitPoster ==
    /\ IdleCache
    /\ IdleMatch
    /\ IdleNetflix
    /\ IdleBatch
    /\ IdleIds
    /\ IdlePoster
    /\ IdleRequests
    /\ IdleTrakt

\* one request, from the route's first line to its response
PosterRequest(type, rank, id, lookup, badge, clean) ==
    LET rankNum == ParseIntRadix10(rank)
    IN  /\ posterCount < MaxPosterRequests
        /\ posterCount' = posterCount + 1
        /\ IF TypeRejected(type) \/ RankRejected(rankNum)
           THEN /\ posterRes' = PosterAnswer(type, rank, 400, 0, FALSE)
                /\ UNCHANGED posterCache
           ELSE IF lookup = "throw"
           THEN /\ posterRes' = PosterAnswer(type, rank, 500, 1, FALSE)
                /\ UNCHANGED posterCache
           ELSE IF lookup # "poster"
           THEN /\ posterRes' = PosterAnswer(type, rank, 404, 1, FALSE)
                /\ UNCHANGED posterCache
           ELSE LET got == getPosterWithBadge(posterCache, PosterKey(type, rankNum, id),
                                              badge, now, clean)
                IN  /\ posterCache' = got.cache
                    /\ posterRes' = PosterAnswer(type, rank,
                                                 IF got.threw THEN 500 ELSE 200,
                                                 IF got.fresh THEN 2 ELSE 1,
                                                 got.cache # posterCache)

PosterCall ==
    \E type \in PosterTypes, rank \in RankTexts, id \in PosterIds,
       lookup \in PosterLookups, badge \in BadgeOutcomes, clean \in BOOLEAN :
        PosterRequest(type, rank, id, lookup, badge, clean)

PosterTick ==
    /\ now + DayMs <= MaxDays * DayMs
    /\ now' = now + DayMs
    /\ UNCHANGED <<redisUrl, store, redis, setLog, lastGet, posterVars>>

NextPoster ==
    \/ PosterCall /\ UNCHANGED <<cacheVars, matchVars, netflixVars, batchVars, idVars, traktVars, requestVars>>
    \/ PosterTick /\ UNCHANGED <<matchVars, netflixVars, batchVars, idVars, traktVars, requestVars>>

SpecPoster == InitPoster /\ [][NextPoster]_vars

----------------------------------------------------------------------------
(* The session and its tokens: OAuth callback, logout, and the token and
   session look-ups, each under the Redis condition of its store calls *)

MaxRefreshes == 2

InitAuth ==
    /\ now = 0
    /\ redisUrl \in BOOLEAN
    /\ store = [k \in CacheKeys |-> Absent]
    /\ redis = [k \in CacheKeys |-> Absent]
    /\ setLog = [k \in CacheKeys |-> NeverSet]
    /\ lastGet = NoGet
    /\ IdleMatch
    /\ IdleNetflix
    /\ IdleBatch
    /\ IdleIds
    /\ IdlePoster
    /\ IdleRequests
    /\ IdleTrakt

\* no token record of the session in the Map nor in Redis
TokensAbsent == (~tokenStore.present) /\ (~tokenRedis.present)

\* the record a call loads is expired and the latest refresh attempt failed,
\* or there is no record at all
SessionInvalid(mode) ==
    \/ TokensAbsent
    \/ refreshFailed /\ isTokenExpired(loadTokens(tokenStore, tokenRedis, mode), now)

\* GET /auth/callback, from the query checks to the redirect
AuthCallback(outcome, m1, m2, m3, answer) ==
    LET tokenData == TokenData(issued + 1, now)
        ts1 == SaveTokensStore(tokenStore, tokenData, m2)
        tr1 == SaveTokensRedis(tokenRedis, tokenData, m2)
        \* getUserInfo(sessionId) starts with getAccessToken(sessionId)
        acc == getAccessToken(ts1, tr1, m3, answer, m3, now, issued + 2)
    IN  /\ ~created
        /\ IF outcome = "ok"
           THEN /\ created' = TRUE
                /\ sessionStore' = CreateSessionStore(sessionStore, m1)
                /\ sessionRedis' = CreateSessionRedis(sessionRedis, m1)
                /\ tokenStore' = acc.store
                /\ tokenRedis' = acc.redis
                /\ issued' = issued + (IF acc.refreshed THEN 2 ELSE 1)
                /\ refreshes' = refreshes + (IF acc.refreshSent THEN 1 ELSE 0)
                /\ lastAuth' = AuthOp("callback", TRUE, BearerOf(acc.token), now,
                                      acc.loaded, acc.refreshSent, TokensAbsent,
                                      FALSE, outcome)
           ELSE /\ lastAuth' = AuthOp("callback", FALSE, Null, now, NoTokens, FALSE,
                                      TokensAbsent, FALSE, outcome)
                /\ UNCHANGED <<created, sessionStore, sessionRedis, tokenStore,
                               tokenRedis, issued, refreshes>>
        /\ UNCHANGED <<refreshFailed, loggedOut>>

\* POST /auth/logout for a request that names the session
AuthLogout(via, emptyBody, m1, m2) ==
    LET read == LogoutSessionRead(via, emptyBody)
    IN  /\ created
        /\ tokenStore' = IF read THEN ClearTokensStore(tokenStore, m1) ELSE tokenStore
        /\ tokenRedis' = IF read THEN ClearTokensRedis(tokenRedis, m1) ELSE tokenRedis
        /\ sessionStore' = IF read THEN DeleteSessionStore(sessionStore, m2)
                           ELSE sessionStore
        /\ sessionRedis' = IF read THEN DeleteSessionRedis(sessionRedis, m2)
                           ELSE sessionRedis
        /\ loggedOut' = TRUE
        /\ lastAuth' = AuthOp("logout", TRUE, Null, now, NoTokens, FALSE,
                              TokensAbsent, FALSE, via)
        /\ UNCHANGED <<created, issued, refreshFailed, refreshes>>

\* tokenManager.isAuthenticated(sessionId)
IsAuthenticatedCall(mode) ==
    /\ lastAuth' = AuthOp("isAuthenticated",
                          isAuthenticated(tokenStore, tokenRedis, mode), Null, now,
                          loadTokens(tokenStore, tokenRedis, mode), FALSE,
                          TokensAbsent, SessionInvalid(mode), "none")
    /\ UNCHANGED <<tokenStore, tokenRedis, sessionStore, sessionRedis, created,
                   issued, refreshFailed, loggedOut, refreshes>>

\* sessionManager.isValidSession(sessionId)
IsValidSessionCall(mode) ==
    /\ lastAuth' = AuthOp("isValidSession",
                          isValidSession(sessionStore, sessionRedis, mode), Null, now,
                          NoTokens, FALSE, TokensAbsent, SessionInvalid(mode), "none")
    /\ UNCHANGED <<tokenStore, tokenRedis, sessionStore, sessionRedis, created,
                   issued, refreshFailed, loggedOut, refreshes>>

\* tokenManager.getAccessToken(sessionId), as getTraktHeaders, getUserInfo and
\* markAsWatched call it; the token it returns is the bearer token of the request
GetAccessTokenCall(m1, answer, m2) ==
    LET acc == getAccessToken(tokenStore, tokenRedis, m1, answer, m2, now, issued + 1)
    IN  /\ issued < MaxTokens
        /\ refreshes < MaxRefreshes
        /\ tokenStore' = acc.store
        /\ tokenRedis' = acc.redis
        /\ issued' = issued + (IF acc.refreshed THEN 1 ELSE 0)
        /\ refreshes' = refreshes + (IF acc.refreshSent THEN 1 ELSE 0)
        /\ refreshFailed' = IF acc.refreshSent THEN ~acc.refreshed ELSE refreshFailed
        /\ lastAuth' = AuthOp("getAccessToken", Truthy(acc.token), BearerOf(acc.token),
                              now, acc.loaded, acc.refreshSent, TokensAbsent,
                              SessionInvalid(m1), answer)
        /\ UNCHANGED <<sessionStore, sessionRedis, created, loggedOut>>

AuthTick ==
    /\ now + AuthTickMs <= MaxAuthTicks * AuthTickMs
    /\ now' = now + AuthTickMs
    /\ UNCHANGED <<redisUrl, store, redis, setLog, lastGet, authVars>>

CallbackCall ==
    \E outcome \in CallbackOutcomes, m1 \in ModesFor(redisUrl),
       m2 \in ModesFor(redisUrl), m3 \in ModesFor(redisUrl), answer \in TokenAnswers :
        AuthCallback(outcome, m1, m2, m3, answer)
LogoutCall ==
    \E via \in LogoutVias, emptyBody \in EmptyBodies, m1 \in ModesFor(redisUrl),
       m2 \in ModesFor(redisUrl) : AuthLogout(via, emptyBody, m1, m2)
AuthenticatedCall == \E mode \in ModesFor(redisUrl) : IsAuthenticatedCall(mode)
ValidSessionCall == \E mode \in ModesFor(redisUrl) : IsValidSessionCall(mode)
AccessTokenCall ==
    \E m1 \in ModesFor(redisUrl), answer \in TokenAnswers, m2 \in ModesFor(redisUrl) :
        GetAccessTokenCall(m1, answer, m2)

NextAuth ==
    \/ CallbackCall /\ UNCHANGED <<cacheVars, matchVars, netflixVars, batchVars, idVars, posterVars, catalogVars, requestVars>>
    \/ LogoutCall /\ UNCHANGED <<cacheVars, matchVars, netflixVars, batchVars, idVars, posterVars, catalogVars, requestVars>>
    \/ AuthenticatedCall /\ UNCHANGED <<cacheVars, matchVars, netflixVars, batchVars, idVars, posterVars, catalogVars, requestVars>>
    \/ ValidSessionCall /\ UNCHANGED <<cacheVars, matchVars, netflixVars, batchVars, idVars, posterVars, catalogVars, requestVars>>
    \/ AccessTokenCall /\ UNCHANGED <<cacheVars, matchVars, netflixVars, batchVars, idVars, posterVars, catalogVars, requestVars>>
    \/ AuthTick /\ UNCHANGED <<matchVars, netflixVars, batchVars, idVars, posterVars, catalogVars, requestVars>>

SpecAuth == InitAuth /\ [][NextAuth]_vars

----------------------------------------------------------------------------
(* The Trakt catalogs, the stream handler and clear-cache: each request runs
   under one Redis condition, against upstream answers drawn per request *)

\* a token record issued a while ago, with half an hour of validity left at time 0
ExpiringTokens == TokenData(1, 0 - (3 * AuthTickMs))

\* the store the deployment writes to: Redis when it is configured, the Maps otherwise
InMap(url, x, none) == IF url THEN none ELSE x
InRedis(url, x, none) == IF url THEN x ELSE none

InitCatalog ==
    /\ now = 0
    /\ redisUrl \in BOOLEAN
    /\ store = [k \in CatalogKeys |-> Absent]
    /\ redis = [k \in CatalogKeys |-> Absent]
    /\ setLog = [k \in CacheKeys |-> NeverSet]
    /\ lastGet = NoGet
    /\ IdleMatch
    /\ IdleNetflix
    /\ IdleBatch
    /\ IdleIds
    /\ IdlePoster
    /\ IdleRequests
    /\ \E tokens \in {NoTokens, TokenData(1, 0), ExpiringTokens}, session \in BOOLEAN :
          /\ tokenStore = InMap(redisUrl, tokens, NoTokens)
          /\ tokenRedis = InRedis(redisUrl, tokens, NoTokens)
          /\ sessionStore = InMap(redisUrl, session, FALSE)
          /\ sessionRedis = InRedis(redisUrl, session, FALSE)
          /\ created = session
          /\ issued = IF tokens.present THEN 1 ELSE 0
    /\ refreshFailed = FALSE
    /\ loggedOut = FALSE
    /\ refreshes = 0
    /\ lastAuth = NoAuthOp
    /\ IdleCatalog

\* the part every catalog request shares: it is counted, and an entry that is
\* gone is no longer an old entry
Counted ==
    /\ catCount' = catCount + 1
    /\ oldEntries' = oldEntries \cap Entries(store', redis')

\* what a recommendations call leaves behind in the token stores
TokensAfter(rec) ==
    /\ tokenStore' = rec.tokenStore
    /\ tokenRedis' = rec.tokenRedis
    /\ issued' = issued + (IF rec.refreshed THEN 1 ELSE 0)
    /\ refreshes' = refreshes + (IF rec.refreshSent THEN 1 ELSE 0)
    /\ refreshFailed' = IF rec.refreshSent THEN ~rec.refreshed ELSE refreshFailed

\* getMovieRecommendations(sessionId, skip) / getSeriesRecommendations(sessionId, skip)
RecommendationsRun(type, skip, mode, answer, trendAnswer, refreshAnswer) ==
    LET rec == getRecommendations(type, SessionId, skip, store, redis, tokenStore, tokenRedis,
                                  mode, answer, trendAnswer, refreshAnswer, now,
                                  issued + 1)
        key == RecommendationsKey(type, SessionId, PageOf(skip))
    IN  /\ catCount < MaxRecommendationCalls
        /\ issued < MaxTokens
        /\ store' = rec.store
        /\ redis' = rec.redis
        /\ TokensAfter(rec)
        /\ Counted
        /\ catRes' = CatalogOp("recommendations", type, <<SessionId>>,
                               isValidSession(sessionStore, sessionRedis, mode),
                               TokensAbsent,
                               IF rec.requested THEN answer.kind ELSE "none",
                               rec.requested /\ answer.kind = "ok" /\ answer.data = <<>>,
                               rec.path, rec.raised, rec.metas, rec.trending, rec.bearer,
                               rec.path = "cache" /\ <<Backend(mode), key>> \in oldEntries,
                               rec.requested \/ rec.trendFetched, clearedOnce)
        /\ UNCHANGED <<now, redisUrl, setLog, lastGet, sessionStore, sessionRedis,
                       created, loggedOut, lastAuth, clearedOnce, streamRes, scrobble>>

\* the catalog handler for id 'trakt-recommendations'
CatalogRequest(type, sessionId, skip, mode, answer, trendAnswer, refreshAnswer) ==
    LET valid == isValidSession(sessionStore, sessionRedis, mode)
        rec == getRecommendations(type, SessionId, 0, store, redis, tokenStore, tokenRedis,
                                  mode, answer, trendAnswer, refreshAnswer, now,
                                  issued + 1)
        key == RecommendationsKey(type, SessionId, PageOf(0))
    IN  /\ catCount < MaxCatalogRequests
        /\ issued < MaxTokens
        /\ IF Truthy(sessionId) /\ valid
           THEN /\ store' = rec.store
                /\ redis' = rec.redis
                /\ TokensAfter(rec)
                /\ catRes' = CatalogOp("catalog", type, sessionId, valid, TokensAbsent,
                                       IF rec.requested THEN answer.kind ELSE "none",
                                       rec.requested /\ answer.kind = "ok"
                                           /\ answer.data = <<>>,
                                       rec.path, rec.raised,
                                       Slice(rec.metas, skip, 100),
                                       Slice(rec.trending, skip, 100), rec.bearer,
                                       rec.path = "cache"
                                           /\ <<Backend(mode), key>> \in oldEntries,
                                       rec.requested \/ rec.trendFetched, clearedOnce)
           ELSE /\ catRes' = CatalogOp("catalog", type, sessionId, valid, TokensAbsent,
                                       "none", FALSE, "empty", FALSE, <<>>, <<>>, Null,
                                       FALSE, FALSE, clearedOnce)
                /\ UNCHANGED <<store, redis, tokenStore, tokenRedis, issued, refreshes,
                               refreshFailed>>
        /\ Counted
        /\ UNCHANGED <<now, redisUrl, setLog, lastGet, sessionStore, sessionRedis,
                       created, loggedOut, lastAuth, clearedOnce, streamRes, scrobble>>

\* getNewlyReleasedPopular(skip)
NewlyReleasedRun(skip, mode, answer) ==
    LET got == getNewlyReleasedPopular(store, redis, skip, mode, answer, now)
        key == NewlyReleasedKey(PageOf(skip))
    IN  /\ catCount < MaxCatalogRequests
        /\ store' = got.store
        /\ redis' = got.redis
        /\ Counted
        /\ catRes' = CatalogOp("newly-released", "movie", Null, FALSE, TokensAbsent,
                               answer.kind, FALSE, got.path, FALSE, got.metas, <<>>, Null,
                               got.path = "cache" /\ <<Backend(mode), key>> \in oldEntries,
                               got.path = "fresh", clearedOnce)
        /\ UNCHANGED <<now, redisUrl, setLog, lastGet, authVars, clearedOnce, streamRes,
                       scrobble>>

\* getNetflixTop10Movies() / getNetflixTop10Series()
NetflixRun(type, mode, answer) ==
    LET got == getNetflixTop10(store, redis, type, mode, answer, now)
    IN  /\ catCount < MaxCatalogRequests
        /\ store' = got.store
        /\ redis' = got.redis
        /\ Counted
        /\ catRes' = CatalogOp("netflix", type, Null, FALSE, TokensAbsent,
                               answer.kind, FALSE, got.path, FALSE, got.metas, <<>>, Null,
                               got.path = "cache"
                                   /\ <<Backend(mode), NetflixKey(type)>> \in oldEntries,
                               got.path = "fresh", clearedOnce)
        /\ UNCHANGED <<now, redisUrl, setLog, lastGet, authVars, clearedOnce, streamRes,
                       scrobble>>

\* GET /admin/clear-cache: every key of the list is cleared, then success is answered
ClearCacheRequest(mode) ==
    LET after == ClearAll(store, redis, mode, 1)
    IN  /\ catCount < MaxCatalogRequests
        /\ catCount' = catCount + 1
        /\ store' = after.store
        /\ redis' = after.redis
        /\ oldEntries' = Entries(after.store, after.redis)
        /\ clearedOnce' = TRUE
        /\ catRes' = CatalogOp("clear-cache", "movie", Null, FALSE, TokensAbsent, "none",
                               FALSE, "success", FALSE, <<>>, <<>>, Null, FALSE, FALSE,
                               TRUE)
        /\ UNCHANGED <<now, redisUrl, setLog, lastGet, authVars, streamRes, scrobble>>

\* the stream handler, up to its return; markAsWatched is called and left running
StreamRequest(type, id, sessionId, mode) ==
    LET imdbId == parseStremioId(id)
        valid == isValidSession(sessionStore, sessionRedis, mode)
        started == ScrobbleStarts(imdbId, sessionId, valid)
    IN  /\ catCount < MaxCatalogRequests
        /\ catCount' = catCount + 1
        /\ scrobble' = IF started THEN "pending" ELSE scrobble
        /\ streamRes' = [done |-> TRUE, streams |-> <<>>, started |-> started,
                         parsed |-> Truthy(imdbId), session |-> sessionId,
                         valid |-> valid,
                         scrobbleAtAnswer |-> IF started THEN "pending" ELSE scrobble]
        /\ UNCHANGED <<cacheVars, authVars, catRes, oldEntries, clearedOnce>>

\* markAsWatched(sessionId, imdbId, type, season, episode) runs to its end:
\* "true" and "false" are its results, "threw" a fetch that failed inside it
ScrobbleSettle(mode, answer, refreshAnswer) ==
    LET isAuth == isAuthenticated(tokenStore, tokenRedis, mode)
        acc == getAccessToken(tokenStore, tokenRedis, mode, refreshAnswer, mode, now,
                              issued + 1)
        posted == isAuth /\ Truthy(acc.token)
    IN  /\ scrobble = "pending"
        /\ issued < MaxTokens
        /\ scrobble' = IF ~posted THEN "false"
                       ELSE IF answer = "ok" THEN "true"
                       ELSE IF answer = "throw" THEN "threw"
                       ELSE "false"
        /\ tokenStore' = IF isAuth THEN acc.store ELSE tokenStore
        /\ tokenRedis' = IF isAuth THEN acc.redis ELSE tokenRedis
        /\ issued' = issued + (IF isAuth /\ acc.refreshed THEN 1 ELSE 0)
        /\ refreshes' = refreshes + (IF isAuth /\ acc.refreshSent THEN 1 ELSE 0)
        /\ refreshFailed' = IF isAuth /\ acc.refreshSent THEN ~acc.refreshed
                            ELSE refreshFailed
        /\ UNCHANGED <<cacheVars, sessionStore, sessionRedis, created, loggedOut,
                       lastAuth, catRes, catCount, oldEntries, clearedOnce, streamRes>>

RecommendationsCall ==
    \E type \in ContentTypes, skip \in Skips, mode \in ModesFor(redisUrl),
       answer \in RecommendationAnswers, trendAnswer \in TrendingAnswers,
       refreshAnswer \in {"ok", "notok"} :
        RecommendationsRun(type, skip, mode, answer, trendAnswer, refreshAnswer)
CatalogCall ==
    \E type \in ContentTypes, sessionId \in ExtractedSessions, skip \in Skips,
       mode \in ModesFor(redisUrl), answer \in CatalogAnswers,
       trendAnswer \in TrendingAnswers, refreshAnswer \in {"ok", "notok"} :
        CatalogRequest(type, sessionId, skip, mode, answer, trendAnswer, refreshAnswer)
NewlyReleasedCall ==
    \E skip \in {0}, mode \in ModesFor(redisUrl), answer \in TmdbAnswers :
        NewlyReleasedRun(skip, mode, answer)
NetflixCall ==
    \E type \in ContentTypes, mode \in ModesFor(redisUrl), answer \in ScrapeAnswers :
        NetflixRun(type, mode, answer)
ClearCacheCall == \E mode \in ModesFor(redisUrl) : ClearCacheRequest(mode)
StreamCall ==
    \E type \in ContentTypes, id \in StreamIds, sessionId \in ExtractedSessions,
       mode \in ModesFor(redisUrl) : StreamRequest(type, id, sessionId, mode)
ScrobbleCall ==
    \E mode \in ModesFor(redisUrl), answer \in TokenAnswers,
       refreshAnswer \in TokenAnswers : ScrobbleSettle(mode, answer, refreshAnswer)

NextCatalog ==
    \/ CatalogCall /\ UNCHANGED <<matchVars, netflixVars, batchVars, idVars, posterVars, requestVars>>
    \/ NewlyReleasedCall /\ UNCHANGED <<matchVars, netflixVars, batchVars, idVars, posterVars, requestVars>>
    \/ NetflixCall /\ UNCHANGED <<matchVars, netflixVars, batchVars, idVars, posterVars, requestVars>>
    \/ ClearCacheCall /\ UNCHANGED <<matchVars, netflixVars, batchVars, idVars, posterVars, requestVars>>

SpecCatalog == InitCatalog /\ [][NextCatalog]_vars

\* calls of the two recommendation functions, and the logout that removes
\* the tokens of the session
FirstLogout == (~loggedOut) /\ LogoutCall

NextRecommendations ==
    \/ RecommendationsCall /\ UNCHANGED <<matchVars, netflixVars, batchVars, idVars, posterVars, requestVars>>
    \/ FirstLogout /\ UNCHANGED <<cacheVars, matchVars, netflixVars, batchVars, idVars, posterVars, catalogVars, requestVars>>

SpecRecommendations == InitCatalog /\ [][NextRecommendations]_vars

\* stream requests and the markAsWatched calls they leave running
NextStream ==
    \/ StreamCall /\ UNCHANGED <<matchVars, netflixVars, batchVars, idVars, posterVars, requestVars>>
    \/ ScrobbleCall /\ UNCHANGED <<matchVars, netflixVars, batchVars, idVars, posterVars, requestVars>>

SpecStream == InitCatalog /\ [][NextStream]_vars

----------------------------------------------------------------------------
(* One catalog request: the args, the session state and the service outcome
   are drawn, then the handler runs *)

InitHandler ==
    /\ IdleCache
    /\ IdleMatch
    /\ IdleNetflix
    /\ IdleBatch
    /\ IdleIds
    /\ IdlePoster
    /\ IdleTrakt
    /\ IdleMatcher
    /\ IdleRetention
    /\ IdleRace
    /\ IdleOwners
    /\ IdleRefresh
    /\ IdleImport
    /\ catalogArgs \in [version : HandlerVersions, id : CatalogIds, type : HandlerTypes,
                        skip : SkipTexts, session : ExtractedSessions, valid : BOOLEAN,
                        outcome : ServiceOutcomes]
    /\ catalogReply = NoCatalogReply

HandlerCall ==
    LET a == catalogArgs
        r == catalogHandler(a.version, a.id, a.type, a.skip, a.session, a.valid, a.outcome)
    IN  /\ ~catalogReply.done
        /\ catalogReply' = [done |-> TRUE, raised |-> r.raised, caught |-> r.caught,
                            metas |-> r.metas]
        /\ UNCHANGED catalogArgs

NextHandler ==
    HandlerCall /\ UNCHANGED <<cacheVars, matchVars, netflixVars, batchVars, idVars, posterVars, traktVars, matcherVars, retentionVars, raceVars, ownerVars, refreshVars, importVars>>

SpecHandler == InitHandler /\ [][NextHandler]_vars

----------------------------------------------------------------------------
(* One call of titleMatcher's searchTMDB: the title, the search response and
   the external_ids answers are drawn, then the function runs *)

InitMatcher ==
    /\ IdleCache
    /\ IdleMatch
    /\ IdleNetflix
    /\ IdleBatch
    /\ IdleIds
    /\ IdlePoster
    /\ IdleTrakt
    /\ IdleHandler
    /\ IdleRetention
    /\ IdleRace
    /\ IdleOwners
    /\ IdleRefresh
    /\ IdleImport
    /\ searchArgs \in [item : BatchItems, reply : SearchReplies, imdb : ImdbReplies]
    /\ searchResult = NoSearchResult

\* the whole function sits in one try whose catch returns null
SearchTmdbCall ==
    /\ ~searchResult.done
    /\ searchResult' = [done |-> TRUE, raised |-> FALSE,
                        match |-> searchTMDB(searchArgs.item, searchArgs.reply,
                                             searchArgs.imdb)]
    /\ UNCHANGED searchArgs

NextMatcher ==
    SearchTmdbCall /\ UNCHANGED <<cacheVars, matchVars, netflixVars, batchVars, idVars, posterVars, traktVars, handlerVars, retentionVars, raceVars, ownerVars, refreshVars, importVars>>

SpecMatcher == InitMatcher /\ [][NextMatcher]_vars

----------------------------------------------------------------------------
(* How long sessions and token records are kept: writes, reads and the
   passing of days *)

InitRetention ==
    /\ now = 0
    /\ redisUrl \in BOOLEAN
    /\ store = [k \in CacheKeys |-> Absent]
    /\ redis = [k \in CacheKeys |-> Absent]
    /\ setLog = [k \in CacheKeys |-> NeverSet]
    /\ lastGet = NoGet
    /\ IdleMatch
    /\ IdleNetflix
    /\ IdleBatch
    /\ IdleIds
    /\ IdlePoster
    /\ IdleTrakt
    /\ IdleHandler
    /\ IdleMatcher
    /\ IdleRetention
    /\ IdleRace
    /\ IdleOwners
    /\ IdleRefresh
    /\ IdleImport

\* createSession(userData)
RetainedCreateSession(mode) ==
    /\ writes < MaxRetentionWrites
    /\ writes' = writes + 1
    /\ sessionStore' = CreateSessionStore(sessionStore, mode)
    /\ sessionRedis' = CreateSessionRedis(LiveSession(sessionRedis, sessionExpiry, day),
                                          mode)
    /\ sessionExpiry' = ExpiryAfterSet(sessionExpiry, mode, day)
    /\ sessionWritten' = day
    /\ created' = TRUE
    /\ UNCHANGED <<cacheVars, tokenStore, tokenRedis, issued, refreshFailed, loggedOut,
                   refreshes, lastAuth, catalogVars, tokenExpiry, tokenWritten, retained, day>>

\* saveTokens(sessionId, tokenData)
RetainedSaveTokens(mode) ==
    /\ writes < MaxRetentionWrites
    /\ writes' = writes + 1
    /\ tokenStore' = SaveTokensStore(tokenStore, TokenData(1, now), mode)
    /\ tokenRedis' = SaveTokensRedis(LiveTokens(tokenRedis, tokenExpiry, day),
                                     TokenData(1, now), mode)
    /\ tokenExpiry' = ExpiryAfterSet(tokenExpiry, mode, day)
    /\ tokenWritten' = day
    /\ UNCHANGED <<cacheVars, sessionStore, sessionRedis, created, issued, refreshFailed,
                   loggedOut, refreshes, lastAuth, catalogVars, sessionExpiry,
                   sessionWritten, retained, day>>

\* getSession(sessionId), isValidSession(sessionId) and loadTokens(sessionId)
RetainedRead(mode) ==
    /\ writes > 0
    /\ retained' =
          [done |-> TRUE,
           session |-> getSession(sessionStore,
                                  LiveSession(sessionRedis, sessionExpiry, day), mode),
           valid |-> isValidSession(sessionStore,
                                    LiveSession(sessionRedis, sessionExpiry, day), mode),
           tokens |-> loadTokens(tokenStore, LiveTokens(tokenRedis, tokenExpiry, day),
                                 mode),
           backend |-> Backend(mode),
           at |-> day,
           sessionAge |-> IF sessionWritten < 0 THEN -1 ELSE day - sessionWritten,
           tokenAge |-> IF tokenWritten < 0 THEN -1 ELSE day - tokenWritten]
    /\ UNCHANGED <<cacheVars, authVars, catalogVars, sessionExpiry, tokenExpiry,
                   sessionWritten, tokenWritten, writes, day>>

\* days pass
RetentionTick ==
    /\ day + RetentionTickDays <= MaxRetentionTicks * RetentionTickDays
    /\ day' = day + RetentionTickDays
    /\ UNCHANGED <<cacheVars, traktVars, sessionExpiry, tokenExpiry, sessionWritten,
                   tokenWritten, retained, writes>>

CreateSessionCall == \E mode \in ModesFor(redisUrl) : RetainedCreateSession(mode)
SaveTokensCall == \E mode \in ModesFor(redisUrl) : RetainedSaveTokens(mode)
RetainedReadCall == \E mode \in ModesFor(redisUrl) : RetainedRead(mode)

NextRetention ==
    \/ CreateSessionCall /\ UNCHANGED <<matchVars, netflixVars, batchVars, idVars, posterVars, handlerVars, matcherVars, raceVars, ownerVars, refreshVars, importVars>>
    \/ SaveTokensCall /\ UNCHANGED <<matchVars, netflixVars, batchVars, idVars, posterVars, handlerVars, matcherVars, raceVars, ownerVars, refreshVars, importVars>>
    \/ RetainedReadCall /\ UNCHANGED <<matchVars, netflixVars, batchVars, idVars, posterVars, handlerVars, matcherVars, raceVars, ownerVars, refreshVars, importVars>>
    \/ RetentionTick /\ UNCHANGED <<matchVars, netflixVars, batchVars, idVars, posterVars, handlerVars, matcherVars, raceVars, ownerVars, refreshVars, importVars>>

SpecRetention == InitRetention /\ [][NextRetention]_vars

----------------------------------------------------------------------------
(* Two getTrendingMovies() calls that overlap: each await is a point where
   the other request may run *)

InitRace ==
    /\ now = 0
    /\ redisUrl \in BOOLEAN
    /\ store = [k \in {TrendingMoviesKey} |-> Absent]
    /\ redis = [k \in {TrendingMoviesKey} |-> Absent]
    /\ setLog = [k \in CacheKeys |-> NeverSet]
    /\ lastGet = NoGet
    /\ IdleMatch
    /\ IdleNetflix
    /\ IdleBatch
    /\ IdleIds
    /\ IdlePoster
    /\ IdleTrakt
    /\ IdleHandler
    /\ IdleMatcher
    /\ IdleRetention
    /\ IdleOwners
    /\ IdleRefresh
    /\ IdleImport
    /\ racePc = [p \in Requests |-> "start"]
    /\ raceMissed = [p \in Requests |-> FALSE]
    /\ raceMetas = [p \in Requests |-> <<>>]
    /\ raceOut = [p \in Requests |-> <<>>]
    /\ lastWrite = NoWrite

\* const cached = await cache.get(cacheKey); if (cached) return cached
RaceGet(p, mode) ==
    LET cached == GetResult(store, redis, TrendingMoviesKey, mode, now)
    IN  /\ racePc[p] = "start"
        /\ store' = GetStore(store, TrendingMoviesKey, mode, now)
        /\ raceMissed' = [raceMissed EXCEPT ![p] = ~cached.hit]
        /\ racePc' = [racePc EXCEPT ![p] = IF cached.hit THEN "done" ELSE "fetching"]
        /\ raceOut' = [raceOut EXCEPT ![p] = IF cached.hit THEN cached.value ELSE <<>>]
        /\ UNCHANGED <<now, redisUrl, redis, setLog, lastGet, raceMetas, lastWrite>>

\* the fetch and the mapping end: the metas are ready to be cached, or the
\* catch block returns []
RaceFetched(p, answer) ==
    /\ racePc[p] = "fetching"
    /\ IF answer.kind = "ok"
       THEN /\ racePc' = [racePc EXCEPT ![p] = "setting"]
            /\ raceMetas' = [raceMetas EXCEPT ![p] = RaceMetas(answer)]
       ELSE /\ racePc' = [racePc EXCEPT ![p] = "done"]
            /\ raceMetas' = raceMetas
    /\ UNCHANGED <<cacheVars, raceMissed, raceOut, lastWrite>>

\* await cache.set(cacheKey, metas, config.cache.tmdbTTL); return metas
RaceSet(p, mode) ==
    /\ racePc[p] = "setting"
    /\ store' = SetStore(store, TrendingMoviesKey, raceMetas[p], tmdbTTL, mode, now)
    /\ redis' = SetRedis(redis, TrendingMoviesKey, raceMetas[p], tmdbTTL, mode, now)
    /\ lastWrite' = [by |-> p, backend |-> Backend(mode)]
    /\ raceOut' = [raceOut EXCEPT ![p] = raceMetas[p]]
    /\ racePc' = [racePc EXCEPT ![p] = "done"]
    /\ UNCHANGED <<now, redisUrl, setLog, lastGet, raceMissed, raceMetas>>

RaceGetStep == \E p \in Requests, mode \in ModesFor(redisUrl) : RaceGet(p, mode)
RaceFetchStep == \E p \in Requests, answer \in RaceAnswers : RaceFetched(p, answer)
RaceSetStep == \E p \in Requests, mode \in ModesFor(redisUrl) : RaceSet(p, mode)

NextRace ==
    \/ RaceGetStep /\ UNCHANGED <<matchVars, netflixVars, batchVars, idVars, posterVars, traktVars, handlerVars, matcherVars, retentionVars, ownerVars, refreshVars, importVars>>
    \/ RaceFetchStep /\ UNCHANGED <<matchVars, netflixVars, batchVars, idVars, posterVars, traktVars, handlerVars, matcherVars, retentionVars, ownerVars, refreshVars, importVars>>
    \/ RaceSetStep /\ UNCHANGED <<matchVars, netflixVars, batchVars, idVars, posterVars, traktVars, handlerVars, matcherVars, retentionVars, ownerVars, refreshVars, importVars>>

SpecRace == InitRace /\ [][NextRace]_vars

----------------------------------------------------------------------------
(* Recommendation calls of two sessions against one cache: the session of
   the OAuth flow, and a second session whose token record is fresh *)

\* getMovieRecommendations(sessionId, skip) / getSeriesRecommendations(sessionId, skip)
SessionRecommendations(type, sessionId, skip, mode, answer, trendAnswer, refreshAnswer) ==
    LET own == sessionId = SessionId
        tmem == IF own THEN tokenStore ELSE OtherTokens
        tred == IF own THEN tokenRedis ELSE OtherTokens
        rec == getRecommendations(type, sessionId, skip, store, redis, tmem, tred, mode,
                                  answer, trendAnswer, refreshAnswer, now, issued + 1)
        key == RecommendationsKey(type, sessionId, PageOf(skip))
    IN  /\ catCount < MaxRecommendationCalls
        /\ issued < MaxTokens
        /\ catCount' = catCount + 1
        /\ store' = rec.store
        /\ redis' = rec.redis
        /\ IF own THEN TokensAfter(rec)
           ELSE UNCHANGED <<tokenStore, tokenRedis, issued, refreshes, refreshFailed>>
        /\ entryOwner' = IF rec.path = "fresh"
                         THEN [entryOwner EXCEPT ![Backend(mode)][key] =
                                                     Owner(sessionId, PageOf(skip))]
                         ELSE entryOwner
        /\ lastRec' = [done |-> TRUE, session |-> sessionId, type |-> type, skip |-> skip,
                       path |-> rec.path,
                       auth |-> isAuthenticated(tmem, tred, mode),
                       answer |-> IF rec.requested THEN answer.kind ELSE "none",
                       empty |-> rec.requested /\ answer.kind = "ok" /\ answer.data = <<>>,
                       readFrom |-> IF rec.path = "cache"
                                    THEN entryOwner[Backend(mode)][key] ELSE NoOwner,
                       trendPage |-> IF rec.path = "trending" THEN rec.trendPage ELSE 0]
        /\ UNCHANGED <<now, redisUrl, setLog, lastGet, sessionStore, sessionRedis,
                       created, loggedOut, lastAuth, catRes, oldEntries, clearedOnce,
                       streamRes, scrobble>>

SessionRecommendationsCall ==
    \E type \in ContentTypes, sessionId \in SessionIds, skip \in Skips,
       mode \in ModesFor(redisUrl), answer \in RecommendationAnswers,
       trendAnswer \in TrendingAnswers, refreshAnswer \in {"ok", "notok"} :
        SessionRecommendations(type, sessionId, skip, mode, answer, trendAnswer,
                               refreshAnswer)

NextSessions ==
    SessionRecommendationsCall /\ UNCHANGED <<matchVars, netflixVars, batchVars, idVars, posterVars, handlerVars, matcherVars, retentionVars, raceVars, refreshVars, importVars>>

SpecSessions == InitCatalog /\ [][NextSessions]_vars

----------------------------------------------------------------------------
(* Two getAccessToken(sessionId) calls of one session that overlap: each
   await is a point where the other call may run *)

InitRefresh ==
    /\ now = 0
    /\ redisUrl \in BOOLEAN
    /\ store = [k \in CacheKeys |-> Absent]
    /\ redis = [k \in CacheKeys |-> Absent]
    /\ setLog = [k \in CacheKeys |-> NeverSet]
    /\ lastGet = NoGet
    /\ IdleMatch
    /\ IdleNetflix
    /\ IdleBatch
    /\ IdleIds
    /\ IdlePoster
    /\ \E tokens \in {NoTokens, TokenData(1, 0), ExpiringTokens} :
          /\ tokenStore = InMap(redisUrl, tokens, NoTokens)
          /\ tokenRedis = InRedis(redisUrl, tokens, NoTokens)
    /\ sessionStore = InMap(redisUrl, TRUE, FALSE)
    /\ sessionRedis = InRedis(redisUrl, TRUE, FALSE)
    /\ created = TRUE
    /\ issued = 1
    /\ refreshFailed = FALSE
    /\ loggedOut = FALSE
    /\ refreshes = 0
    /\ lastAuth = NoAuthOp
    /\ IdleCatalog
    /\ IdleHandler
    /\ IdleMatcher
    /\ IdleRetention
    /\ IdleRace
    /\ IdleOwners
    /\ IdleImport
    /\ tokPc = [p \in Requests |-> "start"]
    /\ tokSent = [p \in Requests |-> Null]
    /\ tokNew = [p \in Requests |-> NoTokens]
    /\ tokOut = [p \in Requests |-> Null]

\* getAccessToken up to the fetch of refreshAccessToken: loadTokens, the
\* expiry check, and the token request with the refresh_token just loaded
TokenLoad(p, mode) ==
    LET tokens == loadTokens(tokenStore, tokenRedis, mode)
        expired == tokens.present /\ isTokenExpired(tokens, now)
        sends == expired /\ Truthy(tokens.refresh_token)
    IN  /\ tokPc[p] = "start"
        /\ tokPc' = [tokPc EXCEPT ![p] = IF sends THEN "refreshing" ELSE "done"]
        /\ tokSent' = [tokSent EXCEPT ![p] = IF sends THEN tokens.refresh_token ELSE Null]
        /\ tokOut' = [tokOut EXCEPT ![p] = IF tokens.present /\ ~expired
                                           THEN tokens.access_token ELSE Null]
        /\ refreshes' = refreshes + (IF sends THEN 1 ELSE 0)
        /\ UNCHANGED <<cacheVars, tokenStore, tokenRedis, sessionStore, sessionRedis,
                       created, issued, refreshFailed, loggedOut, lastAuth, catalogVars,
                       tokNew>>

\* Trakt answers the token request: newTokens is built, or the error is
\* rethrown and getAccessToken returns null
TokenAnswer(p, answer) ==
    /\ tokPc[p] = "refreshing"
    /\ issued < MaxTokens
    /\ IF answer = "ok"
       THEN /\ tokNew' = [tokNew EXCEPT ![p] = TokenData(issued + 1, now)]
            /\ issued' = issued + 1
            /\ tokPc' = [tokPc EXCEPT ![p] = "saving"]
       ELSE /\ tokPc' = [tokPc EXCEPT ![p] = "done"]
            /\ UNCHANGED <<tokNew, issued>>
    /\ refreshFailed' = (answer # "ok")
    /\ UNCHANGED <<cacheVars, tokenStore, tokenRedis, sessionStore, sessionRedis,
                   created, loggedOut, refreshes, lastAuth, catalogVars, tokSent, tokOut>>

\* await saveTokens(sessionId, newTokens); return newTokens
TokenSave(p, mode) ==
    /\ tokPc[p] = "saving"
    /\ tokenStore' = SaveTokensStore(tokenStore, tokNew[p], mode)
    /\ tokenRedis' = SaveTokensRedis(tokenRedis, tokNew[p], mode)
    /\ tokOut' = [tokOut EXCEPT ![p] = tokNew[p].access_token]
    /\ tokPc' = [tokPc EXCEPT ![p] = "done"]
    /\ UNCHANGED <<cacheVars, sessionStore, sessionRedis, created, issued, refreshFailed,
                   loggedOut, refreshes, lastAuth, catalogVars, tokSent, tokNew>>

TokenLoadStep == \E p \in Requests, mode \in ModesFor(redisUrl) : TokenLoad(p, mode)
TokenAnswerStep == \E p \in Requests, answer \in TokenAnswers : TokenAnswer(p, answer)
TokenSaveStep == \E p \in Requests, mode \in ModesFor(redisUrl) : TokenSave(p, mode)

NextRefresh ==
    \/ TokenLoadStep /\ UNCHANGED <<matchVars, netflixVars, batchVars, idVars, posterVars, handlerVars, matcherVars, retentionVars, raceVars, ownerVars, importVars>>
    \/ TokenAnswerStep /\ UNCHANGED <<matchVars, netflixVars, batchVars, idVars, posterVars, handlerVars, matcherVars, retentionVars, raceVars, ownerVars, importVars>>
    \/ TokenSaveStep /\ UNCHANGED <<matchVars, netflixVars, batchVars, idVars, posterVars, handlerVars, matcherVars, retentionVars, raceVars, ownerVars, importVars>>

SpecRefresh == InitRefresh /\ [][NextRefresh]_vars

----------------------------------------------------------------------------
(* Netflix imports and the progress connections of two sessions; a request
   is suspended while batchSearch and bulkMarkAsWatched run *)

InitImport ==
    /\ IdleCache
    /\ IdleMatch
    /\ IdleNetflix
    /\ IdleBatch
    /\ IdleIds
    /\ IdlePoster
    /\ IdleTrakt
    /\ IdleHandler
    /\ IdleMatcher
    /\ IdleRetention
    /\ IdleRace
    /\ IdleOwners
    /\ IdleRefresh
    /\ activeConnections = {}
    /\ importPc = "idle"
    /\ importSession = "none"
    /\ importRes = NoImport
    /\ importCount = 0

\* GET /api/import-netflix/progress/:sessionId
ProgressConnect(sessionId) ==
    /\ activeConnections' = activeConnections \cup {sessionId}
    /\ UNCHANGED <<importPc, importSession, importRes, importCount>>

\* req.on('close'): the client ends the progress connection
ProgressClose(sessionId) ==
    /\ sessionId \in activeConnections
    /\ activeConnections' = activeConnections \ {sessionId}
    /\ UNCHANGED <<importPc, importSession, importRes, importCount>>

\* the response of the import goes out on the given path
ImportRespond(sessionId, path) ==
    /\ activeConnections' = IF ClosesConnection(path)
                            THEN activeConnections \ {sessionId}
                            ELSE activeConnections
    /\ importRes' = [done |-> TRUE, session |-> sessionId, path |-> path,
                     status |-> ImportStatus(path),
                     registered |-> sessionId \in activeConnections,
                     remaining |-> sessionId \in activeConnections']
    /\ importPc' = "idle"
    /\ importSession' = "none"
    /\ importCount' = importCount + 1

\* POST /api/import-netflix up to the await of batchSearch
ImportStart(sessionId, csv) ==
    /\ importPc = "idle"
    /\ importCount < MaxImports
    /\ IF csv = "parsed"
       THEN /\ importPc' = "matching"
            /\ importSession' = sessionId
            /\ UNCHANGED <<activeConnections, importRes, importCount>>
       ELSE ImportRespond(sessionId, csv)

\* batchSearch has resolved or rejected: up to the await of bulkMarkAsWatched
ImportMatched(outcome) ==
    /\ importPc = "matching"
    /\ IF outcome = "some"
       THEN /\ importPc' = "syncing"
            /\ UNCHANGED <<activeConnections, importSession, importRes, importCount>>
       ELSE ImportRespond(importSession, outcome)

\* bulkMarkAsWatched has resolved or rejected
ImportSynced(path) ==
    /\ importPc = "syncing"
    /\ ImportRespond(importSession, path)

ProgressConnectCall == \E sessionId \in SessionIds : ProgressConnect(sessionId)
ProgressCloseCall == \E sessionId \in SessionIds : ProgressClose(sessionId)
ImportStartCall ==
    \E sessionId \in SessionIds, csv \in {"nocsv", "parsefail", "parsed"} :
        ImportStart(sessionId, csv)
ImportMatchedCall == \E outcome \in {"some", "nomatch", "exception"} : ImportMatched(outcome)
ImportSyncedCall == \E path \in {"success", "syncfail", "exception"} : ImportSynced(path)

NextImport ==
    \/ ProgressConnectCall /\ UNCHANGED <<cacheVars, matchVars, netflixVars, batchVars, idVars, posterVars, traktVars, handlerVars, matcherVars, retentionVars, raceVars, ownerVars, refreshVars>>
    \/ ProgressCloseCall /\ UNCHANGED <<cacheVars, matchVars, netflixVars, batchVars, idVars, posterVars, traktVars, handlerVars, matcherVars, retentionVars, raceVars, ownerVars, refreshVars>>
    \/ ImportStartCall /\ UNCHANGED <<cacheVars, matchVars, netflixVars, batchVars, idVars, posterVars, traktVars, handlerVars, matcherVars, retentionVars, raceVars, ownerVars, refreshVars>>
    \/ ImportMatchedCall /\ UNCHANGED <<cacheVars, matchVars, netflixVars, batchVars, idVars, posterVars, traktVars, handlerVars, matcherVars, retentionVars, raceVars, ownerVars, refreshVars>>
    \/ ImportSyncedCall /\ UNCHANGED <<cacheVars, matchVars, netflixVars, batchVars, idVars, posterVars, traktVars, handlerVars, matcherVars, retentionVars, raceVars, ownerVars, refreshVars>>

SpecImport == InitImport /\ [][NextImport]_vars

----------------------------------------------------------------------------
(* Claims about the cache, checked under SpecCache *)

\* the get recorded in lastGet came after the latest set of its key, and
\* more than that set's ttl after it
ReadAfterTtl ==
    /\ lastGet.done
    /\ setLog[lastGet.key].isSet
    /\ lastGet.at > setLog[lastGet.key].at + setLog[lastGet.key].ttl

\* the get recorded in lastGet came after the latest set of its key, before
\* that set's ttl ran out, and no clear of the key came in between
ReadBeforeTtl ==
    /\ lastGet.done
    /\ setLog[lastGet.key].isSet
    /\ ~setLog[lastGet.key].cleared
    /\ lastGet.at < setLog[lastGet.key].at + setLog[lastGet.key].ttl

\* C1: a get issued more than ttl milliseconds after the latest set of its key
\* is a miss, whichever backend served the set, and a get served by the
\* in-memory Map leaves no entry for the key behind.
C1_ExpiredReadIsMiss ==
    ReadAfterTtl =>
        /\ lastGet.result = Miss
        /\ (lastGet.mode # "ok" => ~store[lastGet.key].present)

\* C2: a get issued before the ttl of the latest set of its key has run out,
\* with no clear in between, returns the value that was set, for every pattern
\* of Redis availability across the two calls.
C2_BackendUnobservable ==
    ReadBeforeTtl => lastGet.result = Hit(setLog[lastGet.key].value)

----------------------------------------------------------------------------
(* Claims about the confidence score, checked under SpecMatch *)

SearchNorm == Trim(ToLowerCase(searchTitle))
FoundNorm == Trim(ToLowerCase(IF foundTitle.some THEN foundTitle.val ELSE <<>>))
LongerLen == IF Len(SearchNorm) > Len(FoundNorm) THEN Len(SearchNorm) ELSE Len(FoundNorm)
ShorterLen == IF Len(SearchNorm) > Len(FoundNorm) THEN Len(FoundNorm) ELSE Len(SearchNorm)
OneContainsOther == Includes(FoundNorm, SearchNorm) \/ Includes(SearchNorm, FoundNorm)
Dissimilar == SearchNorm # FoundNorm /\ ~OneContainsOther
NoYearInfo == ~searchYear.some /\ ~foundDate.some

\* the part of the returned score that the title comparison contributed
TitleComponent == confidence.score - YearScore(searchYear, foundDate)
\* the part of the returned score that the year comparison contributed
YearComponent == confidence.score - TitleScore(SearchNorm, FoundNorm)

\* C3: for every search title, candidate title (empty and missing included),
\* optional year and optional date, the returned confidence is in 0..100.
C3_ScoreInRange ==
    confidence.done => confidence.score \in 0..100

\* the score was computed for a missing candidate title and far-apart years
C3_Witness ==
    /\ confidence.done
    /\ ~foundTitle.some
    /\ searchTitle # <<>>
    /\ searchYear = Some(2021)
    /\ foundDate = Some(DateText(2018))
    /\ confidence.score = 50

\* C4: the title component is 70 for titles equal after lower-casing and
\* trimming, 50 when one contains the other, and otherwise 40 scaled by
\* shorter.length/longer.length (rounded down); so dissimilar titles with no
\* year information score at most 40*ratio + 15.
C4_TitleComponent ==
    confidence.done =>
        /\ (SearchNorm = FoundNorm => TitleComponent = 70)
        /\ (SearchNorm # FoundNorm /\ OneContainsOther => TitleComponent = 50)
        /\ (Dissimilar =>
              /\ TitleComponent * LongerLen <= 40 * ShorterLen
              /\ (TitleComponent + 1) * LongerLen > 40 * ShorterLen)
        /\ (Dissimilar /\ NoYearInfo =>
              confidence.score * LongerLen <= 40 * ShorterLen + 15 * LongerLen)

\* dissimilar titles whose length ratio is not a whole number of points, scored
\* with no year information
C4_Witness ==
    /\ confidence.done
    /\ Dissimilar
    /\ NoYearInfo
    /\ ShorterLen = 2
    /\ LongerLen = 3
    /\ confidence.score = 41

\* C5: the year component is 30 for equal years, 20 for years one apart, 10
\* for years two apart, and 15 when neither side has a year; an exact
\* case-insensitive title match with an exact year match scores exactly 100.
C5_YearComponent ==
    confidence.done =>
        /\ \A y \in 2018..2023 :
              (searchYear = Some(2021) /\ foundDate = Some(DateText(y))) =>
                  /\ (y = 2021 => YearComponent = 30)
                  /\ (Abs(y - 2021) = 1 => YearComponent = 20)
                  /\ (Abs(y - 2021) = 2 => YearComponent = 10)
        /\ (NoYearInfo => YearComponent = 15)
        /\ (/\ ToLowerCase(searchTitle) =
                 ToLowerCase(IF foundTitle.some THEN foundTitle.val ELSE <<>>)
            /\ searchYear = Some(2021)
            /\ foundDate = Some(DateText(2021))
            => confidence.score = 100)

\* titles that differ only in case, with the same year on both sides
C5_Witness ==
    /\ confidence.done
    /\ searchTitle = <<"a", "b">>
    /\ foundTitle = Some(<<"A", "b", " ">>)
    /\ searchYear = Some(2021)
    /\ foundDate = Some(DateText(2021))
    /\ confidence.score = 100

\* a candidate released one year after the year searched for
C5_WitnessOneApart ==
    /\ confidence.done
    /\ searchYear = Some(2021)
    /\ foundDate = Some(DateText(2022))
    /\ YearComponent = 20

----------------------------------------------------------------------------
(* Claims about the Netflix Top-10 reconciler, checked under SpecNetflix *)

\* the rows of the page that yield a usable title
UsableRows == {i \in DOMAIN page : ~page[i].th /\ Len(RowTitle(page[i])) > 1}

\* the last request scraped a page that answered with success
ScrapedOk == reply.done /\ reply.fetch = "ok"

\* no spelling variant of the title gets a search result
Unmatchable(title) ==
    \/ ~apiKey
    \/ \A v \in DOMAIN Variations(title) : world.search[Variations(title)[v]] # "found"

IsStaticList(metas, type) ==
    /\ Len(metas) = (IF type = "movie" THEN 9 ELSE 6)
    /\ \A i \in DOMAIN metas :
          /\ metas[i].id[1] = "netflix:se:fallback"
          /\ metas[i].id[2] = i
          /\ metas[i].type = <<type>>

C8_FallbackNeverEmpty ==
    reply.done =>
        /\ reply.metas # <<>>
        /\ (reply.fetch \in {"notok", "throw"} \/ (ScrapedOk /\ UsableRows = {}) =>
              /\ IsStaticList(reply.metas, reply.type)
              /\ reply.metas = getFallbackData(reply.type))

\* a page with rows, none of them usable, was scraped for the series catalog
C8_Witness ==
    /\ ScrapedOk
    /\ page # <<>>
    /\ UsableRows = {}
    /\ reply.type = "series"
    /\ Len(reply.metas) = 6

\* C9: a successful scrape returns one item for each of the first min(n, 10)
\* extracted rows, in extraction order and never more than 10; a row that no
\* spelling variant matches is emitted at its position with a synthetic id and
\* its raw title as name, and the static sample list is not returned.
C9_OneItemPerRow ==
    (ScrapedOk /\ reply.parsed # <<>>) =>
        /\ Len(reply.metas) = Min(Len(reply.parsed), 10)
        /\ Len(reply.metas) <= 10
        /\ \A i \in DOMAIN reply.metas :
              LET row == reply.parsed[i]
                  m   == reply.metas[i]
              IN  /\ m.id[1] # "netflix:se:fallback"
                  /\ m.id[1] = "netflix:se" =>
                        /\ m.id = <<"netflix:se", row.rank, row.title>>
                        /\ m.name = row.title
                  /\ m.id[1] \in {"imdb", "tmdb"} =>
                        /\ m.poster = <<"poster", reply.type, row.rank, m.id>>
                        /\ \E v \in DOMAIN Variations(row.title) :
                               m.name = Variations(row.title)[v]
                  /\ Unmatchable(row.title) => m.id[1] = "netflix:se"

\* two rows were scraped: the first matched no variant, the second matched
C9_Witness ==
    /\ ScrapedOk
    /\ Len(reply.parsed) = 2
    /\ Len(reply.metas) = 2
    /\ Unmatchable(reply.parsed[1].title)
    /\ reply.metas[1].id[1] = "netflix:se"
    /\ reply.metas[2].id[1] = "tmdb"

\* C10: only the finished list of a successful scrape is ever stored under a
\* Netflix Top-10 cache key; a static fallback list returned because the scrape
\* failed is not written to the cache.
C10_FallbackNotCached ==
    \A t \in ContentTypes :
        /\ store[NetflixKey(t)].present =>
              store[NetflixKey(t)].value # getFallbackData(t)
        /\ redis[NetflixKey(t)].present =>
              JsonParse(redis[NetflixKey(t)].value) # getFallbackData(t)

----------------------------------------------------------------------------
(* Claims about the pacing of title searches, checked under SpecSearches *)

\* C6: during one Top-10 enrichment run search requests for two different
\* titles of the run are never in flight together.
C6_NetflixSearchesPaced ==
    Cardinality({i \in DOMAIN tasks : tasks[i].at = "search"}) <= 1

\* the pacing that batchSearch keeps: during one run at most one TMDB request
\* is in flight, and successive search requests are issued at least delayMs
\* (250 ms) apart
BatchSearchesPaced ==
    /\ Cardinality(bInFlight) <= 1
    /\ \A j \in 1..(Len(bSearchAt) - 1) : bSearchAt[j + 1] - bSearchAt[j] >= 250

\* a run over two titles has issued both searches and finished
BatchPacedRun ==
    /\ bpc = "done"
    /\ Len(bResults) = 2
    /\ Len(bSearchAt) = 2
    /\ bSearchAt[2] - bSearchAt[1] >= 250

----------------------------------------------------------------------------
(* Claims about catalog item ids, checked under SpecIds *)

\* the two mapped source lists one after the other
CombinedMetas ==
    TmdbListMetas(idTrending, idType, idDetail) \o TmdbListMetas(idSecond, idType, idDetail)

\* the positions of a list that hold the first occurrence of their id
FirstOccurrences(list) ==
    {i \in DOMAIN list : \A j \in 1..(i - 1) : list[j].id # list[i].id}

\* C16: in the combined New & Popular catalog every id appears exactly once,
\* in first-seen order: the output is the concatenation of the two source
\* lists with every later occurrence of an already-seen id removed.
C16_FirstSeenOnce ==
    (idKind = "newAndPopular" /\ idOut.done /\ idType \in ContentTypes) =>
        LET kept == FirstOccurrences(CombinedMetas)
            out  == idOut.metas
        IN  /\ \A i, j \in DOMAIN out : i # j => out[i].id # out[j].id
            /\ Len(out) = Cardinality(kept)
            /\ \A i \in kept :
                  out[Cardinality({j \in kept : j <= i})] = CombinedMetas[i]

\* an id of the trending list comes back in the second list and is dropped there
C16_Witness ==
    /\ idKind = "newAndPopular"
    /\ idOut.done
    /\ Len(idTrending) = 2
    /\ Len(CombinedMetas) = 4
    /\ Len(idOut.metas) = 3
    /\ CombinedMetas[4].id = CombinedMetas[1].id
    /\ idOut.metas[1] = CombinedMetas[1]

\* C17: a catalog item's id is the IMDB id whenever the cross-reference lookup
\* resolves one, and the provider-local id (tmdb:<id>, trakt:<id>) only when
\* the lookup fails or returns none; for TMDB-mapped items, Trakt-mapped items
\* and matched Netflix items.
C17_PrefersImdbId ==
    idOut.done =>
        CASE idKind = "tmdb" ->
                 LET answer == idDetail[idItem.id]
                     meta   == idOut.metas[1]
                 IN  /\ answer \in ImdbIds => meta.id = answer
                     /\ answer \notin ImdbIds => meta.id = <<"tmdb", idItem.id>>
          [] idKind = "trakt" ->
                 LET meta == idOut.metas[1]
                 IN  /\ idItem.imdb \in ImdbIds => meta.id = idItem.imdb
                     /\ idItem.imdb \notin ImdbIds => meta.id = <<"trakt", idItem.id>>
          [] idKind = "netflix" ->
                 LET meta == idOut.metas[1]
                 IN  meta.id[1] # "netflix:se" =>
                        /\ idWorld.detail = "imdb" => meta.id[1] = "imdb"
                        /\ idWorld.detail # "imdb" => meta.id[1] = "tmdb"
          [] idKind = "newAndPopular" ->
                 \A i \in DOMAIN idOut.metas : idOut.metas[i].id[1] \in {"imdb", "tmdb"}
          [] OTHER -> TRUE

\* a TMDB item whose detail request resolved an IMDB id was mapped to that id
C17_Witness ==
    /\ idKind = "tmdb"
    /\ idOut.done
    /\ idDetail[idItem.id] \in ImdbIds
    /\ idOut.metas[1].id = idDetail[idItem.id]

----------------------------------------------------------------------------
(* Claims about the poster route, checked under SpecPoster *)

\* the text is a decimal integer between 1 and 10
IsRankInRange(rank) ==
    /\ IsAllDigits(rank)
    /\ DigitsValue(rank) >= 1
    /\ DigitsValue(rank) <= 10

\* C19: a poster request whose type is neither movie nor series, or whose rank
\* is not an integer in 1..10, is answered with status 400 before any upstream
\* lookup is made and leaves the badge cache unchanged.
C19_InvalidPosterRequestRejected ==
    (posterRes.done /\ (posterRes.type \notin {"movie", "series"}
                            \/ ~IsRankInRange(posterRes.rank))) =>
        /\ posterRes.status = 400
        /\ posterRes.lookups = 0
        /\ ~posterRes.cacheChanged

----------------------------------------------------------------------------
(* Claims about sessions and tokens, checked under SpecAuth *)

\* C13: a session whose token record is absent, or whose token is expired and
\* whose refresh failed, is unauthenticated for every operation:
\* isAuthenticated reports false, getAccessToken returns null, and no request
\* carries a bearer token of the session
C13_InvalidSessionUnauthenticated ==
    lastAuth.invalid =>
        /\ lastAuth.op = "isAuthenticated" => ~lastAuth.ok
        /\ lastAuth.op = "getAccessToken" => lastAuth.token = Null

\* milliseconds of validity the loaded token had left when the call was made
Remaining == lastAuth.loaded.expires_at - lastAuth.at

\* C14: refresh is lazy: getAccessToken on a stored token with less than one
\* hour left sends a refresh request and, when Trakt grants it, returns the
\* new access token; a token with at least one hour left is returned as it is
\* without a refresh request; and a refresh request is sent by no step other
\* than a getAccessToken call
C14_LazyRefresh ==
    /\ [](lastAuth.op = "getAccessToken" /\ lastAuth.loaded.present =>
            IF Remaining < 60 * 60 * 1000
            THEN /\ lastAuth.refreshSent
                 /\ lastAuth.outcome = "ok" =>
                        /\ Truthy(lastAuth.token)
                        /\ lastAuth.token # lastAuth.loaded.access_token
            ELSE /\ ~lastAuth.refreshSent
                 /\ lastAuth.token = lastAuth.loaded.access_token)
    /\ [][refreshes' # refreshes =>
            lastAuth'.op = "getAccessToken" /\ lastAuth'.refreshSent]_vars

\* getAccessToken refreshed a token that was still valid for under an hour
C14_Witness ==
    /\ lastAuth.op = "getAccessToken"
    /\ lastAuth.loaded.present
    /\ Remaining > 0
    /\ Remaining < 60 * 60 * 1000
    /\ lastAuth.refreshSent
    /\ lastAuth.outcome = "ok"
    /\ lastAuth.token = <<"at", 2>>

\* C15: a session and its token record exist only after a callback whose code
\* exchange succeeded, and after a logout that names the session both are
\* gone: isValidSession and isAuthenticated report false
C15_SessionLifecycle ==
    /\ (sessionStore \/ sessionRedis \/ ~TokensAbsent) => created
    /\ (lastAuth.op = "callback" /\ lastAuth.outcome # "ok") => ~created
    /\ (loggedOut /\ lastAuth.op \in {"isValidSession", "isAuthenticated"}) =>
            ~lastAuth.ok

----------------------------------------------------------------------------
(* Claims about the recommendation functions, checked under SpecRecommendations *)

\* the call met one of the four conditions: no token, a 401, another error
\* status or a failed fetch, or zero recommendations
FallbackCase ==
    \/ catRes.noToken
    \/ catRes.answer \in {"401", "500", "throw"}
    \/ catRes.empty

\* C11: getMovieRecommendations and getSeriesRecommendations never raise, and
\* when the session has no token, Trakt answers 401 or another error, the call
\* throws, or Trakt returns zero recommendations, the result is the list of
\* the trending endpoint
C11_AlwaysTrendingFallback ==
    catRes.op = "recommendations" =>
        /\ ~catRes.raised
        /\ FallbackCase => catRes.path = "trending" /\ catRes.metas = catRes.trending

\* C11 as the code has it: the same on a cache miss; a cached recommendations
\* page of the session is returned before the token is looked at
C11_TrendingFallbackOnMiss ==
    catRes.op = "recommendations" =>
        /\ ~catRes.raised
        /\ (catRes.path # "cache" /\ FallbackCase) =>
               catRes.path = "trending" /\ catRes.metas = catRes.trending

\* Trakt answered 401 to an authenticated request and the trending list came back
C11_Witness ==
    /\ catRes.op = "recommendations"
    /\ catRes.answer = "401"
    /\ catRes.bearer # Null
    /\ catRes.path = "trending"
    /\ catRes.metas = <<mapTraktToMeta(TraktItem(2, <<"imdb", 2>>), catRes.type)>>

----------------------------------------------------------------------------
(* Claims about the catalog handler and clear-cache, checked under SpecCatalog *)

\* C12: a trakt-recommendations request with no session, or with a session id
\* that is not valid, is answered with trending items and not with an empty
\* list or an error
C12_TrendingForMissingSession ==
    (catRes.op = "catalog" /\ (catRes.session = Null \/ ~catRes.valid)) =>
        catRes.path = "trending"

\* C20: after clear-cache has answered success, no catalog it reports as
\* cleared is served from a cache entry written before the call
C20_ClearedCatalogsRefetched ==
    (catRes.afterClear /\ catRes.op \in {"catalog", "newly-released", "netflix"}) =>
        ~catRes.stale

----------------------------------------------------------------------------
(* Claims about the stream handler, checked under SpecStream *)

\* C18: every stream request is answered with an empty stream list; the
\* answer is given while the markAsWatched call it started is still pending
\* and is not changed by how that call ends; and the call is started only
\* for an id that parses and a valid session
C18_EmptyStreamsDetachedScrobble ==
    /\ [](streamRes.done =>
            /\ streamRes.streams = <<>>
            /\ streamRes.started <=>
                   (streamRes.parsed /\ streamRes.session # Null /\ streamRes.valid)
            /\ streamRes.started => streamRes.scrobbleAtAnswer = "pending")
    /\ [][scrobble = "pending" /\ scrobble' # "pending" => streamRes' = streamRes]_vars

\* a stream request was answered and the scrobble it started failed afterwards
C18_Witness ==
    /\ streamRes.done
    /\ streamRes.started
    /\ streamRes.streams = <<>>
    /\ scrobble = "threw"

----------------------------------------------------------------------------
(* Claims about the catalog handler on its own, checked under SpecHandler *)

\* the request named an id the switch has no case for
UnknownCatalog ==
    RoutedService(catalogArgs.version, catalogArgs.id, catalogArgs.type,
                  <<SessionId>>, TRUE) = "empty"

\* C21: the catalog handler never raises; whatever the type, the catalog id,
\* the skip value, the session state and the outcome of the service call, it
\* returns an object with a metas list, and the list is empty for an unknown
\* catalog id and whenever an exception was caught inside the handler
C21_HandlerNeverRaises ==
    catalogReply.done =>
        /\ ~catalogReply.raised
        /\ catalogReply.metas # NotAList
        /\ (UnknownCatalog \/ catalogReply.caught \/ catalogArgs.outcome.kind = "throw")
               => catalogReply.metas = <<>>

\* a service call that was made and rejected, answered with the empty list
C21_Witness ==
    /\ catalogReply.done
    /\ catalogArgs.outcome.kind = "throw"
    /\ catalogArgs.id = "trakt-recommendations"
    /\ catalogArgs.session = <<SessionId>>
    /\ catalogArgs.valid
    /\ catalogArgs.type = "series"
    /\ catalogReply.caught
    /\ catalogReply.metas = <<>>

----------------------------------------------------------------------------
(* Claims about the spelling variants, checked under SpecNetflix *)

\* C22: the spelling variants of a scraped title are queried in the order
\* original, transliterated, diacritic-stripped; the next variant is queried
\* only after a failed or empty search, and once a variant has returned a
\* non-empty result set no later variant is queried
C22_StopsAtFirstResults ==
    \A i \in DOMAIN tasks :
        LET vs == Variations(LimitItems(top10Items)[i].title)
        IN  tasks[i].at \in {"search", "detail"} =>
                \A j \in 1..(tasks[i].vi - 1) : world.search[vs[j]] # "found"

----------------------------------------------------------------------------
(* Claims about titleMatcher's searchTMDB, checked under SpecMatcher *)

\* the confidence searchTMDB computes for a candidate of the search response
CandidateScore(c) ==
    calculateMatchConfidence(searchArgs.item.title, c.title, searchArgs.item.year, c.date)

\* C23: searchTMDB returns at most the first result of the search response,
\* with the confidence computed for it: a candidate at position 2 is never
\* returned, not when it would score higher and not when the first result
\* has no IMDB id; a non-success response or a failed fetch yields null, and
\* the function never raises
C23_OnlyFirstResult ==
    searchResult.done =>
        LET response == searchArgs.reply
            match == searchResult.match
        IN  /\ ~searchResult.raised
            /\ response.kind # "ok" => ~match.matched
            /\ match.matched =>
                  /\ response.results # <<>>
                  /\ match.imdbId = 7000 + response.results[1].id
                  /\ match.title = response.results[1].title
                  /\ match.matchConfidence = CandidateScore(response.results[1])
            /\ (response.results # <<>> /\ searchArgs.imdb[response.results[1].id] # "id")
                  => ~match.matched

\* the first result is returned although the second would score higher
C23_Witness ==
    /\ searchResult.done
    /\ searchResult.match.matched
    /\ Len(searchArgs.reply.results) = 2
    /\ searchArgs.imdb[searchArgs.reply.results[2].id] = "id"
    /\ CandidateScore(searchArgs.reply.results[2])
           > CandidateScore(searchArgs.reply.results[1])
    /\ searchResult.match.imdbId = 7000 + searchArgs.reply.results[1].id

----------------------------------------------------------------------------
(* Claims about the ranks of the extracted entries, checked under SpecNetflix *)

\* the rank in the poster URL of a meta, 0 for a meta without a badge poster
PosterRank(meta) == IF "poster" \in DOMAIN meta THEN meta.poster[3] ELSE 0

\* C24: every rank entry produced by page extraction has a rank in 1..10, so
\* the badge-poster URL of every matched item names a content type and a rank
\* that the poster route's validation accepts
C24_RanksWithinTopTen ==
    (reply.done /\ reply.via = "scrape") =>
        /\ \A i \in DOMAIN reply.parsed : reply.parsed[i].rank \in 1..10
        /\ \A i \in DOMAIN reply.metas :
              "poster" \in DOMAIN reply.metas[i] =>
                  /\ ~TypeRejected(reply.metas[i].poster[2])
                  /\ ~RankRejected([nan |-> FALSE, n |-> PosterRank(reply.metas[i])])

----------------------------------------------------------------------------
(* Claims about the lifetime of sessions and tokens, checked under SpecRetention *)

\* at the read, ninety days had passed since the record was last written
Outlived(age) == age >= NinetyDays

\* C25: every session and every token record is TTL-bounded on both
\* backends: once 90 days have passed since it was last written, getSession,
\* isValidSession and loadTokens no longer return it, from the in-memory Map
\* as from Redis
C25_RecordsExpire ==
    retained.done =>
        /\ Outlived(retained.sessionAge) => (~retained.session /\ ~retained.valid)
        /\ Outlived(retained.tokenAge) => ~retained.tokens.present

----------------------------------------------------------------------------
(* Claims about overlapping catalog requests, checked under SpecRace *)

\* the complete lists a request can have built from one trending answer
CompleteLists == {RaceMetas(a) : a \in {b \in RaceAnswers : b.kind = "ok"}}

\* what a store holds under the key, as the list a cache.get would hand out
HeldInStore == store[TrendingMoviesKey].value
HeldInRedis == JsonParse(redis[TrendingMoviesKey].value)

----------------------------------------------------------------------------
(* Claims about the recommendations of several sessions, checked under
   SpecSessions *)

\* C27: recommendations fetched for one session are never returned to a
\* request made with another session: a cache hit on a recommendations entry
\* reads an entry that a request with the same session id and the same page
\* wrote
C27_SessionIsolation ==
    (lastRec.done /\ lastRec.path = "cache") =>
        lastRec.readFrom = Owner(lastRec.session, PageOf(lastRec.skip))

\* a cache hit of the session on the second page, on the entry it wrote
C27_Witness ==
    /\ lastRec.done
    /\ lastRec.path = "cache"
    /\ lastRec.session = SessionId
    /\ lastRec.skip = 20
    /\ lastRec.readFrom = Owner(SessionId, 2)

\* C29: whenever a recommendations request falls back to trending, the
\* trending page it returns is the page its skip value selects,
\* floor(skip / 20) + 1, in every fallback branch and for movies and series
C29_FallbackFollowsSkip ==
    (lastRec.done /\ lastRec.path = "trending") =>
        lastRec.trendPage = PageOf(lastRec.skip)

----------------------------------------------------------------------------
(* Claims about overlapping token refreshes, checked under SpecRefresh *)

\* C28: for one session at most one token-refresh request is in flight at a
\* time: two overlapping getAccessToken calls that both see an expiring
\* token do not both send the same refresh_token, and both return a usable
\* access token
C28_SingleRefreshInFlight ==
    /\ ~(\A p \in Requests : tokPc[p] = "refreshing")
    /\ (\A p \in Requests : Truthy(tokSent[p])) => tokSent[1] # tokSent[2]
    /\ (\A p \in Requests : tokPc[p] = "done" /\ Truthy(tokSent[p])) =>
           \A p \in Requests : Truthy(tokOut[p])

----------------------------------------------------------------------------
(* Claims about the Netflix import route, checked under SpecImport *)

\* C30: every POST /api/import-netflix that terminates, on whichever path
\* (success, no title matched, Trakt sync failure, exception, missing CSV
\* data, CSV parse failure), ends and unregisters the SSE progress connection
\* of its session: no entry for the session remains in activeConnections when
\* the response has been sent
C30_ConnectionUnregistered ==
    importRes.done => ~importRes.remaining

====
